---------------------------- MODULE Spec2Model ----------------------------
(***************************************************************************)
(* Model of the zahner_analysis file layer: the primitive readers/writers  *)
(* of thales_file_utils.py, the spectrum decoder IsmImport, the spectrum   *)
(* encoder IsmExport and the helpers smoothIsm / compensateIsm.            *)
(*                                                                         *)
(* Conventions                                                             *)
(*  - a byte stream is a sequence of 0..255; a stream position is the      *)
(*    number of bytes already consumed (file.tell()).                      *)
(*  - arrays are sequences; the indices the code stores (fromIndex,        *)
(*    toIndex, argmin, argmax) are kept 0-based as in Python.              *)
(*  - a double is modelled by an integer in -2^23 .. 2^23-1, or by NaN.    *)
(*    An f8 field is 8 bytes: five zero bytes followed by the 24-bit       *)
(*    two's complement of the integer; 7F F8 00 00 00 00 00 00 is NaN.     *)
(*    Every other 8-byte group is read as NaN (the generators below only   *)
(*    produce the two forms above).  Arithmetic on doubles is exact.       *)
(*  - a string is a sequence of character codes.                           *)
(*  - an operator that can raise returns a record with ok = FALSE and the  *)
(*    exception's name in err.                                             *)
(***************************************************************************)
EXTENDS Integers, Sequences, FiniteSets, TLC

VARIABLES
    input,      \* the test buffer's description handed to the decoder (ghost)
    callerBuf,  \* the caller's bytes / bytearray object passed to IsmImport
    objs,       \* the IsmImport objects alive, by holder
    setup,      \* the SetupCompensation object
    ret,        \* outcome of the last call
    rt,         \* decode -> IsmExport -> decode pipeline
    codec,      \* string codec: writeZahnerStringToBytes -> readZahnerStringFromFile
    handles,    \* the files and buffers the constructors have opened
    job         \* the EisFitting client: the call in progress and its requests

vars == <<input, callerBuf, objs, setup, ret, rt, codec, handles, job>>
ismVars == <<input, callerBuf, objs, setup, ret, handles, job>>

CodecIdle == [stage |-> "idle"]
RtIdle == [stage |-> "idle"]

\* Python's None
NoneValue == [none |-> TRUE]

\* no call of the client has been made; both dictionaries are empty
JobIdle ==
    [pc |-> "idle", entry |-> "none", timeout |-> NoneValue, elapsed |-> 0,
     result |-> NoneValue, requests |-> <<>>, reply |-> NoneValue, err |-> "",
     passed |-> "none", given |-> <<>>, caller |-> <<>>, zhitDefault |-> <<>>,
     fetched |-> <<>>, value |-> NoneValue]

---------------------------------------------------------------------------
(* Bounds of the model *)

MaxN == 3
MaxStrLen == 3

---------------------------------------------------------------------------
(* Generic helpers *)

Min(a, b) == IF a < b THEN a ELSE b
Max(a, b) == IF a > b THEN a ELSE b
Abs(a) == IF a < 0 THEN -a ELSE a
Zeros(n) == [i \in 1..n |-> 0]
Rev(s) == [i \in 1..Len(s) |-> s[Len(s) + 1 - i]]
SeqsUpTo(S, n) == UNION {[1..k -> S] : k \in 0..n}

RECURSIVE Concat(_)
Concat(ss) == IF ss = <<>> THEN <<>> ELSE Head(ss) \o Concat(Tail(ss))

\* Python slice a[from:to] for from, to >= 0 (clamped to the length)
PySlice(a, from, to) ==
    LET f == Min(from, Len(a))
        t == Min(to, Len(a))
    IN  IF f >= t THEN <<>> ELSE SubSeq(a, f + 1, t)

---------------------------------------------------------------------------
(* Integers in bytes: int.from_bytes / int.to_bytes *)

Pow256(n) == IF n = 0 THEN 1 ELSE IF n = 1 THEN 256 ELSE IF n = 2 THEN 65536 ELSE 16777216

\* magnitude that stands for every integer that needs more than 24 bits
IntHuge == 128 * 65536

RECURSIVE UnsignedFromBytes(_)
UnsignedFromBytes(bs) ==
    IF bs = <<>> THEN 0
    ELSE 256 * UnsignedFromBytes(SubSeq(bs, 1, Len(bs) - 1)) + bs[Len(bs)]

RECURSIVE StripSign(_)
StripSign(bs) ==
    IF Len(bs) >= 2 /\ (   (bs[1] = 0 /\ bs[2] < 128)
                        \/ (bs[1] = 255 /\ bs[2] >= 128))
    THEN StripSign(Tail(bs))
    ELSE bs

\* int.from_bytes(bs, "big", signed=True); short input is accepted as it is
IntFromBytes(bs) ==
    IF bs = <<>> THEN 0
    ELSE LET c == StripSign(bs)
             neg == c[1] >= 128
         IN  IF Len(c) > 3 THEN (IF neg THEN -IntHuge ELSE IntHuge)
             ELSE UnsignedFromBytes(c) - (IF neg THEN Pow256(Len(c)) ELSE 0)

\* the n low bytes of v in two's complement, big-endian (n <= 3 significant)
RECURSIVE LowBytes(_, _)
LowBytes(v, n) ==
    IF n = 0 THEN <<>> ELSE Append(LowBytes(v \div 256, n - 1), v % 256)

\* v.to_bytes(n, "big", signed=True)
IntToBytesSigned(v, n) ==
    IF n <= 3 /\ (v >= Pow256(n) \div 2 \/ v < -(Pow256(n) \div 2))
    THEN [ok |-> FALSE, err |-> "OverflowError"]
    ELSE [ok |-> TRUE,
          bytes |-> IF n <= 3 THEN LowBytes(v, n)
                    ELSE [i \in 1..(n - 3) |-> IF v < 0 THEN 255 ELSE 0] \o LowBytes(v, 3)]

\* v.to_bytes(n, "big"): unsigned
IntToBytesUnsigned(v, n) ==
    IF v < 0 \/ (n <= 3 /\ v >= Pow256(n))
    THEN [ok |-> FALSE, err |-> "OverflowError"]
    ELSE [ok |-> TRUE,
          bytes |-> IF n <= 3 THEN LowBytes(v, n) ELSE Zeros(n - 3) \o LowBytes(v, 3)]

---------------------------------------------------------------------------
(* thales_file_utils.py: primitive readers *)

\* file.read(n) at position pos: at most n bytes, everything when n < 0
FileRead(data, pos, n) ==
    IF n < 0 THEN SubSeq(data, pos + 1, Len(data))
    ELSE SubSeq(data, pos + 1, Min(pos + n, Len(data)))

NaN == 128 * 65536
NaNBytes == <<127, 248, 0, 0, 0, 0, 0, 0>>

F8FromBytes(bs) ==
    IF SubSeq(bs, 1, 5) = Zeros(5) THEN IntFromBytes(SubSeq(bs, 6, 8)) ELSE NaN

F8ToBytes(v) == IF v = NaN THEN NaNBytes ELSE Zeros(5) \o LowBytes(v, 3)

readF8FromFile(data, pos) ==
    LET bytesRead == FileRead(data, pos, 8)
    IN  IF Len(bytesRead) # 8
        THEN [ok |-> FALSE, err |-> "struct.error", pos |-> pos + Len(bytesRead)]
        ELSE [ok |-> TRUE, val |-> F8FromBytes(bytesRead), pos |-> pos + 8]

readF8ArrayFromFile(data, pos, length) ==
    LET buffer == FileRead(data, pos, 8 * length)
    IN  IF length < 0
        THEN [ok |-> FALSE, err |-> "ValueError", pos |-> pos + Len(buffer)]
        ELSE IF Len(buffer) < 8 * length
        THEN [ok |-> FALSE, err |-> "TypeError", pos |-> pos + Len(buffer)]
        ELSE [ok |-> TRUE,
              val |-> [i \in 1..length |-> F8FromBytes(SubSeq(buffer, 8 * i - 7, 8 * i))],
              pos |-> pos + 8 * length]

readI2FromFile(data, pos) ==
    LET bytesRead == FileRead(data, pos, 2)
    IN  [ok |-> TRUE, val |-> IntFromBytes(bytesRead), pos |-> pos + Len(bytesRead)]

readI2ArrayFromFile(data, pos, length) ==
    LET buffer == FileRead(data, pos, 2 * length)
    IN  IF length < 0
        THEN [ok |-> FALSE, err |-> "ValueError", pos |-> pos + Len(buffer)]
        ELSE IF Len(buffer) < 2 * length
        THEN [ok |-> FALSE, err |-> "TypeError", pos |-> pos + Len(buffer)]
        ELSE [ok |-> TRUE,
              val |-> [i \in 1..length |-> IntFromBytes(SubSeq(buffer, 2 * i - 1, 2 * i))],
              pos |-> pos + 2 * length]

readI6FromFile(data, pos) ==
    LET bytesRead == FileRead(data, pos, 6)
    IN  [ok |-> TRUE, val |-> IntFromBytes(bytesRead), pos |-> pos + Len(bytesRead)]

\* datetime(1980, 1, 1) + timedelta(seconds=abs(timestamp)), as seconds since 1980
thalesTimeStampToDateTime(timestamp) == Abs(timestamp)

readTimeStampDateTimeArrayFromFile(data, pos, length) ==
    LET timeArray == readF8ArrayFromFile(data, pos, length)
    IN  IF ~timeArray.ok THEN timeArray
        ELSE IF \E i \in 1..length : timeArray.val[i] = NaN
        THEN [ok |-> FALSE, err |-> "ValueError", pos |-> timeArray.pos]
        ELSE [ok |-> TRUE,
              val |-> [i \in 1..length |-> thalesTimeStampToDateTime(timeArray.val[i])],
              pos |-> timeArray.pos]

---------------------------------------------------------------------------
(* thales_file_utils.py: the length-prefixed, case-swapped string *)

IsUpper(c) == c >= 65 /\ c <= 90
IsLower(c) == c >= 97 /\ c <= 122
IsAscii(c) == c >= 0 /\ c <= 127

\* str.swapcase() on one ASCII character
SwapCaseChar(c) == IF IsUpper(c) THEN c + 32 ELSE IF IsLower(c) THEN c - 32 ELSE c
SwapCase(s) == [i \in 1..Len(s) |-> SwapCaseChar(s[i])]

\* the characters that follow the length prefix lengthRead
StringContent(data, lengthRead) ==
    LET length == lengthRead.val
        avail == Len(data) - lengthRead.pos
        content == SubSeq(data, lengthRead.pos + 1, lengthRead.pos + length)
    IN  IF length <= 0
        THEN [ok |-> TRUE, val |-> <<>>, pos |-> lengthRead.pos]
        ELSE IF avail < length
        THEN [ok |-> FALSE, err |-> "IndexError", pos |-> Len(data)]
        ELSE IF \E i \in 1..length : ~IsAscii(content[i])
        THEN [ok |-> FALSE, err |-> "UnicodeDecodeError", pos |-> lengthRead.pos + length]
        ELSE [ok |-> TRUE, val |-> SwapCase(content), pos |-> lengthRead.pos + length]

readZahnerStringFromFile(data, pos) == StringContent(data, readI2FromFile(data, pos))

WriteNoSwap(input_string) ==
    LET length_bytes == IntToBytesSigned(Len(input_string), 2)
    IN  IF ~length_bytes.ok THEN length_bytes
        ELSE [ok |-> TRUE, bytes |-> length_bytes.bytes \o input_string]

writeZahnerStringToBytes(input_string) ==
    LET swapped_string == SwapCase(input_string)
        length_bytes == IntToBytesSigned(Len(swapped_string), 2)
    IN  IF \E i \in 1..Len(swapped_string) : ~IsAscii(swapped_string[i])
        THEN [ok |-> FALSE, err |-> "UnicodeEncodeError"]
        ELSE IF ~length_bytes.ok THEN length_bytes
        ELSE [ok |-> TRUE, bytes |-> length_bytes.bytes \o swapped_string]

---------------------------------------------------------------------------
(* thales_file_utils.py: the date *)

IsDigit(c) == c >= 48 /\ c <= 57
IsSpace(c) == c = 32 \/ (c >= 9 /\ c <= 13)

RECURSIVE LStrip(_)
LStrip(s) == IF s # <<>> /\ IsSpace(s[1]) THEN LStrip(Tail(s)) ELSE s
RECURSIVE RStrip(_)
RStrip(s) == IF s # <<>> /\ IsSpace(s[Len(s)]) THEN RStrip(SubSeq(s, 1, Len(s) - 1)) ELSE s

RECURSIVE DigitsValue(_)
DigitsValue(s) ==
    IF s = <<>> THEN 0 ELSE 10 * DigitsValue(SubSeq(s, 1, Len(s) - 1)) + (s[Len(s)] - 48)

\* int(s) for a string of at most two ASCII characters: surrounding white
\* space and one sign are accepted, the rest must be digits
PyInt(s) ==
    LET t == RStrip(LStrip(s))
        signed == t # <<>> /\ t[1] \in {43, 45}
        digits == IF signed THEN Tail(t) ELSE t
    IN  IF digits = <<>> \/ \E i \in 1..Len(digits) : ~IsDigit(digits[i])
        THEN [ok |-> FALSE, err |-> "ValueError"]
        ELSE [ok |-> TRUE,
              val |-> IF signed /\ t[1] = 45 THEN -DigitsValue(digits) ELSE DigitsValue(digits)]

IsLeap(y) == (y % 4 = 0 /\ y % 100 # 0) \/ y % 400 = 0
DaysInMonth(y, m) ==
    IF m = 2 THEN (IF IsLeap(y) THEN 29 ELSE 28)
    ELSE IF m \in {4, 6, 9, 11} THEN 30 ELSE 31

\* datetime.datetime(year, month, day) raises ValueError outside the calendar
DateTimeValid(year, month, day) ==
    /\ year >= 1 /\ year <= 9999
    /\ month >= 1 /\ month <= 12
    /\ day >= 1 /\ day <= DaysInMonth(year, month)

FallbackDate == [year |-> 1970, month |-> 1, day |-> 1]

\* the year rule, or the fallback date when one of the int() calls raised
FieldsToDate(day, month, year) ==
    IF day.ok /\ month.ok /\ year.ok
    THEN [year |-> IF year.val < 70 THEN year.val + 2000 ELSE year.val + 1900,
          month |-> month.val, day |-> day.val]
    ELSE FallbackDate

\* the try/except of readZahnerDate: the three fields, or the fallback date
ParseDateFields(dateString) ==
    LET date == PySlice(dateString, 0, 6)
    IN  FieldsToDate(PyInt(PySlice(date, 0, 2)), PyInt(PySlice(date, 2, 4)),
                     PyInt(PySlice(date, 4, 6)))

\* return datetime.datetime(year, month, day), after the try/except
MakeDateTime(d, pos) ==
    IF ~DateTimeValid(d.year, d.month, d.day)
    THEN [ok |-> FALSE, err |-> "ValueError", pos |-> pos]
    ELSE [ok |-> TRUE, val |-> d, pos |-> pos]

DateFromString(dateString) ==
    IF ~dateString.ok THEN dateString
    ELSE MakeDateTime(ParseDateFields(dateString.val), dateString.pos)

readZahnerDate(data, pos) == DateFromString(readZahnerStringFromFile(data, pos))

---------------------------------------------------------------------------
(* ism_import.py: IsmImport.__init__ *)

KValuesLength == 32
KValueAmplitude == 25
KValueAcq == 27
AcqFlagLimit == 256
AcqBit == 32768

\* np.argmin / np.argmax: 0-based position of the first minimum / maximum
ArgMin(a) ==
    CHOOSE i \in 0..(Len(a) - 1) :
        /\ \A j \in 1..Len(a) : a[j] >= a[i + 1]
        /\ \A j \in 1..i : a[j] > a[i + 1]
ArgMax(a) ==
    CHOOSE i \in 0..(Len(a) - 1) :
        /\ \A j \in 1..Len(a) : a[j] <= a[i + 1]
        /\ \A j \in 1..i : a[j] < a[i + 1]

\* the string attributes of the metadata block, in the order they are read
StringFields ==
    <<"system", "voltage", "current", "temperature", "timeWindow",
      "comment_1", "comment_2", "comment_3", "comment_4", "electrodeArea">>

\* the class attributes: what an instance shows for a field that was never
\* assigned (measurementDate is only annotated, it has no value)
MetaDefaults ==
    [pos |-> 0, failed |-> FALSE, err |-> "",
     measurementDate |-> [unset |-> TRUE],
     system |-> <<>>, voltage |-> <<>>, current |-> <<>>, temperature |-> <<>>,
     timeWindow |-> <<>>, comment_1 |-> <<>>, comment_2 |-> <<>>, comment_3 |-> <<>>,
     comment_4 |-> <<>>, electrodeArea |-> <<>>,
     amplitude |-> [num |-> 0, den |-> 1],
     acqChannels |-> <<>>]

\* a handler that swallows the exception without recording it
RaiseUnrecorded(m, r) == [m EXCEPT !.pos = r.pos, !.err = r.err]

\* an exception inside the try block: the rest of the block is skipped
Raise(m, r) == [m EXCEPT !.pos = r.pos, !.failed = TRUE, !.err = r.err]

\* self.measurementDate = <r>
StoreDate(m, r) ==
    IF ~r.ok THEN Raise(m, r)
    ELSE [m EXCEPT !.pos = r.pos, !.measurementDate = r.val]

StepDate(data, m) == StoreDate(m, readZahnerDate(data, m.pos))

\* self.<field> = <r>
StoreString(m, field, r) ==
    IF ~r.ok THEN Raise(m, r)
    ELSE [m EXCEPT !.pos = r.pos, ![field] = r.val]

StepString(data, m, field) ==
    IF m.failed THEN m
    ELSE StoreString(m, field, readZahnerStringFromFile(data, m.pos))

RECURSIVE StepStrings(_, _, _)
StepStrings(data, m, fields) ==
    IF fields = <<>> THEN m
    ELSE StepStrings(data, StepString(data, m, Head(fields)), Tail(fields))

\* serialQuantityStuff = <r>: read and dropped
DropString(m, r) ==
    IF ~r.ok THEN Raise(m, r)
    ELSE [m EXCEPT !.pos = r.pos]

StepSerial(data, m) ==
    IF m.failed THEN m
    ELSE DropString(m, readZahnerStringFromFile(data, m.pos))

\* one turn of the loop over the interleaved ACQ samples, with the voltage
\* sample v read: u and i are the two channel arrays
RECURSIVE AcqLoop(_, _, _, _, _, _)
AcqTakeCurrent(data, index, n, u, i, v, c) ==
    IF ~c.ok
    THEN [ok |-> FALSE, err |-> c.err, pos |-> c.pos,
          u |-> [u EXCEPT ![index + 1] = v.val], i |-> i]
    ELSE AcqLoop(data, c.pos, index + 1, n,
                 [u EXCEPT ![index + 1] = v.val], [i EXCEPT ![index + 1] = c.val])

AcqTakeVoltage(data, index, n, u, i, v) ==
    IF ~v.ok THEN [ok |-> FALSE, err |-> v.err, pos |-> v.pos, u |-> u, i |-> i]
    ELSE AcqTakeCurrent(data, index, n, u, i, v, readF8FromFile(data, v.pos))

\* the loop from sample index (0-based); the cells of u and i start out
\* uninitialised
AcqLoop(data, pos, index, n, u, i) ==
    IF index >= n THEN [ok |-> TRUE, pos |-> pos, u |-> u, i |-> i]
    ELSE AcqTakeVoltage(data, index, n, u, i, readF8FromFile(data, pos))

AcqCondition(acquisition_flag, k_value_27) ==
    acquisition_flag > AcqFlagLimit /\ (k_value_27 \div AcqBit) % 2 = 1

\* the two channels as the loop left them
StoreChannels(m, loop) ==
    LET chans == <<[name |-> "Voltage/V", data |-> loop.u],
                   [name |-> "Current/A", data |-> loop.i]>>
    IN  IF ~loop.ok THEN [Raise(m, loop) EXCEPT !.acqChannels = chans]
        ELSE [m EXCEPT !.pos = loop.pos, !.acqChannels = chans]

\* amplitude and the ACQ channels, from the k-values; garbage is what the
\* memory of the two freshly allocated channel arrays holds
StepKValues(data, m, n, garbage, acquisition_flag, kValues) ==
    LET k25 == kValues.val[KValueAmplitude + 1]
        k27 == kValues.val[KValueAcq + 1]
        m1 == [m EXCEPT !.pos = kValues.pos,
                        !.amplitude = IF k25 = NaN THEN [nan |-> TRUE]
                                      ELSE [num |-> k25, den |-> 1000]]
    IN  IF ~kValues.ok THEN Raise(m, kValues)
        ELSE IF k27 = NaN THEN Raise(m1, [pos |-> kValues.pos, err |-> "ValueError"])
        ELSE IF ~AcqCondition(acquisition_flag, k27) THEN m1
        ELSE StoreChannels(m1, AcqLoop(data, kValues.pos, 0, n,
                                       [j \in 1..n |-> garbage[j]],
                                       [j \in 1..n |-> garbage[n + j]]))

StepFlag(data, m, n, garbage, flag) ==
    StepKValues(data, m, n, garbage, flag.val,
                readF8ArrayFromFile(data, flag.pos, KValuesLength))

\* acquisition flag, k-values, amplitude and the ACQ channels
StepAcq(data, m, n, garbage) ==
    IF m.failed THEN m
    ELSE StepFlag(data, m, n, garbage, readI2FromFile(data, m.pos))

\* the try block of the constructor, from stream position pos
MetaBlock(data, pos, n, garbage) ==
    StepAcq(data,
            StepSerial(data,
                       StepStrings(data,
                                   StepDate(data, [MetaDefaults EXCEPT !.pos = pos]),
                                   StringFields)),
            n, garbage)

\* a normaliser whose upper bound is the index of the last element itself
NormaliseToExclusive(frequency) ==
    LET minFrequencyIndex == ArgMin(frequency)
        maxFrequencyIndex == ArgMax(frequency)
        swap == minFrequencyIndex > maxFrequencyIndex
    IN  [minFrequencyIndex |-> minFrequencyIndex,
         maxFrequencyIndex |-> maxFrequencyIndex,
         swapNecessary |-> swap,
         fromIndex |-> IF swap THEN maxFrequencyIndex ELSE minFrequencyIndex,
         toIndex |-> IF swap THEN minFrequencyIndex ELSE maxFrequencyIndex]

\* the frequency-range normaliser at the end of the constructor
Normalise(frequency) ==
    LET minFrequencyIndex == ArgMin(frequency)
        maxFrequencyIndex == ArgMax(frequency)
        swap == minFrequencyIndex > maxFrequencyIndex
    IN  [minFrequencyIndex |-> minFrequencyIndex,
         maxFrequencyIndex |-> maxFrequencyIndex,
         swapNecessary |-> swap,
         fromIndex |-> IF swap THEN maxFrequencyIndex ELSE minFrequencyIndex,
         toIndex |-> (IF swap THEN minFrequencyIndex ELSE maxFrequencyIndex) + 1]

\* the five primary arrays, in the order they are read
PrimaryReaders == <<"f8", "f8", "f8", "timestamp", "i2">>

ReadArray(data, pos, length, reader) ==
    CASE reader = "f8" -> readF8ArrayFromFile(data, pos, length)
      [] reader = "timestamp" -> readTimeStampDateTimeArrayFromFile(data, pos, length)
      [] reader = "i2" -> readI2ArrayFromFile(data, pos, length)

\* the arrays one after the other; the first read that raises ends it
RECURSIVE ReadArrays(_, _, _, _, _)
TakeArray(data, length, readers, vals, r) ==
    IF ~r.ok THEN [ok |-> FALSE, err |-> r.err, pos |-> r.pos]
    ELSE ReadArrays(data, r.pos, length, readers, Append(vals, r.val))

ReadArrays(data, pos, length, readers, vals) ==
    IF readers = <<>> THEN [ok |-> TRUE, pos |-> pos, vals |-> vals]
    ELSE TakeArray(data, length, Tail(readers), vals,
                   ReadArray(data, pos, length, Head(readers)))

\* the object the constructor leaves
Constructed(content, numberOfSamples, vals, m, metaData, norm) ==
    [kind |-> "IsmImport",
     _binaryFileContent |-> content,
     numberOfSamples |-> numberOfSamples,
     frequency |-> vals[1],
     impedance |-> vals[2],
     phase |-> vals[3],
     measurementTimeStamp |-> vals[4],
     significance |-> vals[5],
     acqChannels |-> m.acqChannels,
     measurementDate |-> m.measurementDate,
     system |-> m.system, voltage |-> m.voltage, current |-> m.current,
     temperature |-> m.temperature, timeWindow |-> m.timeWindow,
     comment_1 |-> m.comment_1, comment_2 |-> m.comment_2,
     comment_3 |-> m.comment_3, comment_4 |-> m.comment_4,
     electrodeArea |-> m.electrodeArea,
     amplitude |-> m.amplitude,
     metaDataAcqParsingErrorOccurred |-> m.failed,
     _metaData |-> metaData,
     minFrequencyIndex |-> norm.minFrequencyIndex,
     maxFrequencyIndex |-> norm.maxFrequencyIndex,
     swapNecessary |-> norm.swapNecessary,
     fromIndex |-> norm.fromIndex,
     toIndex |-> norm.toIndex]

\* after the try block: the rest of the stream is kept, and np.argmin
\* raises on an empty frequency array
AfterMetaBlock(data, content, numberOfSamples, vals, m) ==
    IF numberOfSamples = 0 THEN [kind |-> "raised", err |-> "ValueError"]
    ELSE Constructed(content, numberOfSamples, vals, m, FileRead(data, m.pos, -1),
                     Normalise(vals[1]))

AfterPrimary(data, content, garbage, numberOfSamples, primary) ==
    IF ~primary.ok THEN [kind |-> "raised", err |-> primary.err]
    ELSE AfterMetaBlock(data, content, numberOfSamples, primary.vals,
                        MetaBlock(data, primary.pos, numberOfSamples, garbage))

AfterHeader(data, content, garbage, count) ==
    AfterPrimary(data, content, garbage, count.val + 1,
                 ReadArrays(data, count.pos, count.val + 1, PrimaryReaders, <<>>))

\* IsmImport(filename): data are the bytes of the buffer or of the file,
\* content is what the constructor stores in _binaryFileContent
IsmImport(data, content, garbage) ==
    AfterHeader(data, content, garbage, readI6FromFile(data, readI6FromFile(data, 0).pos))

\* numberOfSamples as the header gives it
HeaderSamples(data) == readI6FromFile(data, readI6FromFile(data, 0).pos).val + 1

\* The two channel arrays are allocated with np.ndarray(shape=...), which
\* does not initialise them: a cell the loop never writes holds whatever
\* the memory held.  GarbageChoices(data) are the possible contents of the
\* 2 * numberOfSamples cells before the loop (cells the loop writes are
\* fixed to 0 here, they are overwritten).
Unwritten == -(128 * 65536) - 1
GarbageVals == {0, 77}
UnwrittenCells(n, probe) ==
    IF probe.kind # "IsmImport" \/ probe.acqChannels = <<>> THEN {}
    ELSE {j \in 1..n : probe.acqChannels[1].data[j] = Unwritten}
         \cup {n + j : j \in {k \in 1..n : probe.acqChannels[2].data[k] = Unwritten}}

GarbageOver(n, cells) ==
    {[j \in 1..(2 * n) |-> IF j \in cells THEN f[j] ELSE 0] : f \in [cells -> GarbageVals]}

GarbageFor(data, n) ==
    GarbageOver(n, UnwrittenCells(n, IsmImport(data, <<>>, [j \in 1..(2 * n) |-> Unwritten])))

GarbageChoices(data) == GarbageFor(data, Max(0, HeaderSamples(data)))

_arraySlice(o, array, includeDoubleFrequencies) ==
    LET retval == IF ~includeDoubleFrequencies
                  THEN PySlice(array, o.fromIndex, o.toIndex)
                  ELSE array
    IN  IF o.swapNecessary THEN Rev(retval) ELSE retval

getFrequencyArray(o, inc) == _arraySlice(o, o.frequency, inc)
getImpedanceArray(o, inc) == _arraySlice(o, o.impedance, inc)
getPhaseArray(o, inc) == _arraySlice(o, o.phase, inc)
getSignificanceArray(o, inc) == _arraySlice(o, o.significance, inc)
getMeasurementDateTimeArray(o, inc) == _arraySlice(o, o.measurementTimeStamp, inc)
getTrackTypesList(o) == [c \in 1..Len(o.acqChannels) |-> o.acqChannels[c].name]
HasTrack(o, track) == \E c \in 1..Len(o.acqChannels) : o.acqChannels[c].name = track
TrackData(o, track) ==
    o.acqChannels[CHOOSE c \in 1..Len(o.acqChannels) : o.acqChannels[c].name = track].data
getTrack(o, track, inc) == _arraySlice(o, TrackData(o, track), inc)
getMetaData(o) == o._metaData

---------------------------------------------------------------------------
(* Test buffers: the bytes of a spectrum file, built from a description *)

\* a string as the instrument stores it: i2 length, then the case-swapped text
RawString(s) == LowBytes(Len(s), 2) \o SwapCase(s)

F8ArrayBytes(a) == Concat([i \in 1..Len(a) |-> F8ToBytes(a[i])])
I2ArrayBytes(a) == Concat([i \in 1..Len(a) |-> LowBytes(a[i], 2)])

FileVersion == <<0, 0, 255, 255, 255, 254>>

KValuesOf(d) ==
    [i \in 1..KValuesLength |->
        IF i = KValueAmplitude + 1 THEN d.k25
        ELSE IF i = KValueAcq + 1 THEN d.k27 ELSE 0]

IsmBytesUncut(d) ==
    FileVersion
    \o IntToBytesSigned(d.count, 6).bytes
    \o F8ArrayBytes(d.frequency) \o F8ArrayBytes(d.impedance) \o F8ArrayBytes(d.phase)
    \o F8ArrayBytes(d.time) \o I2ArrayBytes(d.significance)
    \o RawString(d.date)
    \o Concat([i \in 1..Len(StringFields) |-> RawString(d.strings[i])])
    \o RawString(d.serial)
    \o LowBytes(d.acqFlag, 2)
    \o F8ArrayBytes(KValuesOf(d))
    \o F8ArrayBytes(d.acq)
    \o d.trailing

\* d.cut bytes are dropped from the end of the file
IsmBytes(d) ==
    LET all == IsmBytesUncut(d)
    IN  SubSeq(all, 1, Max(0, Len(all) - d.cut))

\* "aB1"
SystemString == <<97, 66, 49>>
\* "010170"
GoodDate == <<48, 49, 48, 49, 55, 48>>

\* a complete, well-formed file for the frequencies f; the other arrays
\* carry a different value at every position
PlainDesc(f, withAcq) ==
    [count |-> Len(f) - 1,
     frequency |-> f,
     impedance |-> [i \in 1..Len(f) |-> 10 + i],
     phase |-> [i \in 1..Len(f) |-> 2 * i - 5],
     time |-> [i \in 1..Len(f) |-> 100 + i],
     significance |-> [i \in 1..Len(f) |-> 1000 + i],
     date |-> GoodDate,
     strings |-> [i \in 1..Len(StringFields) |-> IF i = 1 THEN SystemString ELSE <<>>],
     serial |-> <<>>,
     acqFlag |-> IF withAcq THEN AcqFlagLimit + 1 ELSE 0,
     k25 |-> 5000,
     k27 |-> IF withAcq THEN AcqBit ELSE 0,
     acq |-> IF withAcq THEN [j \in 1..(2 * Len(f)) |-> 30 + j] ELSE <<>>,
     trailing |-> <<>>,
     cut |-> 0]

---------------------------------------------------------------------------
(* Complex impedance.  A complex number is kept in polar form [mag, arg];  *)
(* arg counts eighths of a turn (pi / 4), so -pi < phase <= pi is          *)
(* -4 < arg <= 4.                                                          *)

\* the principal value of an angle, in (-pi, pi]
Principal(k) == ((k + 3) % 8) - 3

\* cos(phase) * imp + 1j * sin(phase) * imp
getComplexImpedanceArray(o, inc) ==
    LET imp == getImpedanceArray(o, inc)
        phase == getPhaseArray(o, inc)
    IN  [i \in 1..Len(imp) |-> [mag |-> imp[i], arg |-> phase[i]]]

NpAbs(z) == Abs(z.mag)
NpAngle(z) ==
    IF z.mag = 0 THEN 0 ELSE Principal(z.arg + (IF z.mag < 0 THEN 4 ELSE 0))

---------------------------------------------------------------------------
(* setup_compensation.py *)

\* mean of x[a..b] (1-based, inclusive); the division rounds down, which
\* stands for the rounding of the floating-point result
Mean(x, a, b) ==
    LET RECURSIVE Sum(_)
        Sum(k) == IF k > b THEN 0 ELSE x[k] + Sum(k + 1)
    IN  Sum(a) \div (b - a + 1)

\* scipy.signal.savgol_filter(x, window_length, polyorder), mode "interp".
\* It raises when polyorder >= window_length and when window_length exceeds
\* the size of x.  With polyorder = window_length - 1 the fitted polynomial
\* passes through every point of the window (the input comes back); with
\* polyorder = 0 every point becomes the mean of its window, and the points
\* nearer than half a window to an end get the mean of the first / last
\* window.  Other orders are not modelled.
savgol_filter(x, window_length, polyorder) ==
    LET n == Len(x)
        h == window_length \div 2
    IN  CASE polyorder >= window_length \/ window_length > n ->
                [ok |-> FALSE, err |-> "ValueError"]
          [] polyorder < window_length /\ window_length <= n
             /\ polyorder = window_length - 1 ->
                [ok |-> TRUE, val |-> x]
          [] polyorder < window_length /\ window_length <= n
             /\ polyorder # window_length - 1 /\ polyorder = 0 ->
                [ok |-> TRUE,
                 val |-> [i \in 1..n |->
                            IF i <= h THEN Mean(x, 1, window_length)
                            ELSE IF i > n - h THEN Mean(x, n - window_length + 1, n)
                            ELSE Mean(x, i - h, i + h)]]

\* ism.phase = <phase>, and the index range is reset
SmoothStorePhase(o, phase) ==
    IF ~phase.ok THEN [ok |-> FALSE, err |-> phase.err, obj |-> o]
    ELSE [ok |-> TRUE,
          obj |-> [o EXCEPT !.phase = phase.val,
                            !.fromIndex = 0,
                            !.toIndex = Len(o.impedance),
                            !.swapNecessary = FALSE]]

SmoothPhase(o, window_length, polyorder) ==
    SmoothStorePhase(o, savgol_filter(getPhaseArray(o, FALSE), window_length, polyorder))

\* ism.impedance = <imp>
SmoothStoreImpedance(o, window_length, polyorder, imp) ==
    IF ~imp.ok THEN [ok |-> FALSE, err |-> imp.err, obj |-> o]
    ELSE SmoothPhase([o EXCEPT !.impedance = imp.val], window_length, polyorder)

SmoothImpedance(o, window_length, polyorder) ==
    SmoothStoreImpedance(o, window_length, polyorder,
                         savgol_filter(getImpedanceArray(o, FALSE), window_length, polyorder))

\* smoothIsm(ism, window_length, polyorder): works on the object it is given.
\* The result is the object after the call and whether the call raised.
smoothIsm(ism, window_length, polyorder) ==
    SmoothImpedance([ism EXCEPT !.frequency = getFrequencyArray(ism, FALSE)],
                    window_length, polyorder)

\* np.interp(x, xp, fp) for one point: linear between the neighbours, the
\* end values outside.  fp is complex; the model interpolates mag and arg.
InterpOne(x, xp, fp) ==
    LET n == Len(xp)
        Lin(a, b, k) == a + ((b - a) * (x - xp[k])) \div (xp[k + 1] - xp[k])
        ks == {k \in 1..(n - 1) : xp[k] <= x /\ x < xp[k + 1]}
        k0 == CHOOSE k \in ks : \A j \in ks : k <= j
    IN  IF ks = {} THEN (IF x < xp[1] THEN fp[1] ELSE fp[n])
        ELSE [mag |-> Lin(fp[k0].mag, fp[k0 + 1].mag, k0),
              arg |-> Lin(fp[k0].arg, fp[k0 + 1].arg, k0)]

interpolateIsmToImpedanceArray(ism, frequencyPoints) ==
    [i \in 1..Len(frequencyPoints) |->
        InterpOne(frequencyPoints[i], getFrequencyArray(ism, FALSE),
                  getComplexImpedanceArray(ism, FALSE))]

\* The correction formula with open = 1e15, load = reference = 1 (the
\* defaults): ((Zshort - Zism) * (Zload - Zopen)) / ((Zism - Zopen) *
\* (Zshort - Zload)) * Zreference.  The complex arithmetic is not modelled:
\* this stands in for it, one value per sample, depending on both operands
\* and equal to Zism for Zshort = 0.
CompensatedValue(zshort, zism) ==
    [mag |-> zism.mag - zshort.mag, arg |-> zism.arg - zshort.arg]

NpConjugate(z) == [z EXCEPT !.arg = -@]

ShortScalar == [mag |-> 0, arg |-> 0]

\* the shape numpy gives an element-wise operation on two 1-d arrays of
\* lengths a and b: equal lengths, or one of them 1 (broadcast); -1: ValueError
BroadcastLen(a, b) ==
    IF a = b THEN a ELSE IF a = 1 THEN b ELSE IF b = 1 THEN a ELSE -1

BroadcastAt(x, i) == IF Len(x) = 1 THEN x[1] ELSE x[i]

\* the copy of ism that carries the compensated values
CompensatedCopy(ism, content, Zcompensated) ==
    [ism EXCEPT !._binaryFileContent = content,
                !.frequency = getFrequencyArray(ism, FALSE),
                !.impedance = [i \in 1..Len(Zcompensated) |-> NpAbs(Zcompensated[i])],
                !.phase = [i \in 1..Len(Zcompensated) |-> NpAngle(Zcompensated[i])],
                !.fromIndex = 0,
                !.toIndex = Len(Zcompensated),
                !.swapNecessary = FALSE]

\* the correction formula over the arrays, and the copy
CompensateArrays(ism, content, shortAfter, Zism, Zshort) ==
    IF BroadcastLen(Len(Zshort), Len(Zism)) < 0
    THEN [ok |-> FALSE, err |-> "ValueError", short |-> shortAfter]
    ELSE [ok |-> TRUE,
          short |-> shortAfter,
          obj |-> CompensatedCopy(ism, content,
                    [i \in 1..BroadcastLen(Len(Zshort), Len(Zism)) |->
                        CompensatedValue(BroadcastAt(Zshort, i), BroadcastAt(Zism, i))])]

CompensateWith(ism, content, shortAfter, Zs, conjugateShort) ==
    CompensateArrays(ism, content, shortAfter, getComplexImpedanceArray(ism, FALSE),
                     IF conjugateShort THEN [i \in 1..Len(Zs) |-> NpConjugate(Zs[i])] ELSE Zs)

\* np.interp wants as many sample points as sample values, and at least one
InterpAccepts(ism) ==
    /\ Len(getFrequencyArray(ism, FALSE)) > 0
    /\ Len(getFrequencyArray(ism, FALSE)) = Len(getImpedanceArray(ism, FALSE))

\* Zshort from the smoothed calibration spectrum
CompensateSmoothed(ism, content, smoothed, conjugateShort) ==
    IF ~smoothed.ok THEN [ok |-> FALSE, err |-> smoothed.err, short |-> smoothed.obj]
    ELSE IF ~InterpAccepts(smoothed.obj)
    THEN [ok |-> FALSE, err |-> "ValueError", short |-> smoothed.obj]
    ELSE CompensateWith(ism, content, smoothed.obj,
                        interpolateIsmToImpedanceArray(smoothed.obj,
                                                       getFrequencyArray(ism, FALSE)),
                        conjugateShort)

\* compensateIsm(ism, conjugateShort) on a SetupCompensation whose shortData
\* is the object short (NoObj: the scalar default); open, load and reference
\* are the scalar defaults.  content is the snapshot copy.deepcopy takes of
\* ism._binaryFileContent.
compensateIsm(ism, short, window_length, polyorder, conjugateShort, content) ==
    IF short.kind = "IsmImport"
    THEN CompensateSmoothed(ism, content, smoothIsm(short, window_length, polyorder),
                            conjugateShort)
    ELSE CompensateWith(ism, content, short,
                        [i \in 1..Len(getFrequencyArray(ism, FALSE)) |-> ShortScalar],
                        conjugateShort)

---------------------------------------------------------------------------
(* A program that decodes one spectrum and works with it *)

FreqVals == {1, 2, 3}
Holders == {"meas", "short"}
SmoothParams == {<<3, 2>>, <<3, 0>>, <<5, 3>>}
Accessors == {"frequency", "impedance", "phase", "significance", "timestamps",
              "Voltage/V", "Current/A"}

NoObj == [kind |-> "none"]
RetNone == [op |-> "none"]

IsmIdle ==
    /\ input = NoObj
    /\ callerBuf = <<>>
    /\ objs = [h \in Holders |-> NoObj]
    /\ setup = NoObj
    /\ ret = RetNone
    /\ handles = {}
    /\ job = JobIdle

Live(h) == objs[h].kind = "IsmImport"

\* the bytes an object's _binaryFileContent holds now: its own bytes object,
\* or the caller's bytearray when the constructor stored that
Content(o) ==
    IF o._binaryFileContent.shared THEN callerBuf ELSE o._binaryFileContent.bytes

\* what the constructor stores: the object passed in (bytes or bytearray),
\* or the bytes read from the file
Stored(data, passedAs) ==
    IF passedAs = "bytearray" THEN [shared |-> TRUE] ELSE [shared |-> FALSE, bytes |-> data]

StoredCopy(data, passedAs) == [shared |-> FALSE, bytes |-> data]

\* what a constructor opens for its argument: a path is opened twice, first
\* in a with block that closes it, then as the stream to decode; bytes and
\* bytearrays are wrapped in an io.BytesIO.  closed tells whether the
\* constructor comes to a close() of the stream
Resources(decoder, passedAs, closed) ==
    IF passedAs = "path"
    THEN {[decoder |-> decoder, resource |-> "file", by |-> "with", open |-> FALSE],
          [decoder |-> decoder, resource |-> "file", by |-> "open", open |-> ~closed]}
    ELSE {[decoder |-> decoder, resource |-> "BytesIO", by |-> "BytesIO", open |-> ~closed]}

\* IsmImport closes its stream after the try block: the header and the
\* five primary arrays have been read by then
IsmCloseReached(data) ==
    ReadArrays(data, readI6FromFile(data, readI6FromFile(data, 0).pos).pos,
               HeaderSamples(data), PrimaryReaders, <<>>).ok

IsmHandles(data, passedAs) == Resources("IsmImport", passedAs, IsmCloseReached(data))

\* the other constructors have no close(); SeqTxtImport wraps the decoded
\* text in a StringIO, IsfxModelImport parses the string it is given
HandlesOf(decoder, passedAs) ==
    CASE decoder = "IsfxModelImport" -> {}
      [] decoder = "SeqTxtImport" ->
            Resources(decoder, passedAs, FALSE)
            \cup {[decoder |-> decoder, resource |-> "StringIO", by |-> "StringIO",
                   open |-> TRUE]}
      [] OTHER -> Resources(decoder, passedAs, FALSE)

StillOpen == {h \in handles : h.open}

\* ism = IsmImport(buffer or path)
Import(d, passedAs) ==
    LET data == IsmBytes(d)
    IN  /\ input = NoObj
        /\ \E garbage \in GarbageChoices(data) :
              LET o == IsmImport(data, Stored(data, passedAs), garbage)
              IN  /\ objs' = [objs EXCEPT !.meas = IF o.kind = "IsmImport" THEN o ELSE NoObj]
                  /\ ret' = IF o.kind = "IsmImport" THEN [op |-> "IsmImport"]
                            ELSE [op |-> "IsmImport", raised |-> o.err]
        /\ input' = [d |-> d, passedAs |-> passedAs, kind |-> "input"]
        /\ callerBuf' = IF passedAs = "path" THEN <<>> ELSE data
        /\ handles' = handles \cup IsmHandles(data, passedAs)
        /\ UNCHANGED <<setup, rt, codec, job>>

\* the caller changes the first byte of the bytearray it passed in
CallerWrites ==
    /\ input # NoObj
    /\ input.passedAs = "bytearray"
    /\ callerBuf = IsmBytes(input.d)
    /\ callerBuf' = [callerBuf EXCEPT ![1] = 255 - @]
    /\ UNCHANGED <<input, objs, setup, ret, rt, codec, handles, job>>

AccessorValue(o, which, inc) ==
    CASE which = "frequency" -> getFrequencyArray(o, inc)
      [] which = "impedance" -> getImpedanceArray(o, inc)
      [] which = "phase" -> getPhaseArray(o, inc)
      [] which = "significance" -> getSignificanceArray(o, inc)
      [] which = "timestamps" -> getMeasurementDateTimeArray(o, inc)
      [] which \in {"Voltage/V", "Current/A"} -> getTrack(o, which, inc)

\* one of the array getters, on the decoded object
Accessor(which, inc) ==
    /\ Live("meas")
    /\ which \in {"Voltage/V", "Current/A"} => HasTrack(objs.meas, which)
    /\ ret' = [op |-> "get", which |-> which, inc |-> inc,
               val |-> AccessorValue(objs.meas, which, inc)]
    /\ UNCHANGED <<input, callerBuf, objs, setup, rt, codec, handles, job>>

GetBinaryFileContent ==
    /\ Live("meas")
    /\ ret' = [op |-> "getBinaryFileContent", val |-> Content(objs.meas)]
    /\ UNCHANGED <<input, callerBuf, objs, setup, rt, codec, handles, job>>

Save ==
    /\ Live("meas")
    /\ ret' = [op |-> "save", written |-> Content(objs.meas)]
    /\ UNCHANGED <<input, callerBuf, objs, setup, rt, codec, handles, job>>

\* smoothIsm(ism, window_length, polyorder) called by the program; what it
\* returns is the object it was given
SmoothIsmCall(window_length, polyorder) ==
    /\ Live("meas")
    /\ LET r == smoothIsm(objs.meas, window_length, polyorder)
       IN  /\ objs' = [objs EXCEPT !.meas = r.obj]
           /\ ret' = IF r.ok THEN [op |-> "smoothIsm", same |-> "meas"]
                     ELSE [op |-> "smoothIsm", raised |-> r.err]
    /\ UNCHANGED <<input, callerBuf, setup, rt, codec, handles, job>>

\* SetupCompensation(shortData=<path>, smoothingWindowLength, smoothingPolyOrder)
NewSetupWithShort(f, window_length, polyorder) ==
    LET data == IsmBytes(PlainDesc(f, FALSE))
    IN  /\ setup = NoObj
        /\ setup' = [kind |-> "SetupCompensation", shortData |-> "short",
                     smoothingWindowLength |-> window_length,
                     smoothingPolyOrder |-> polyorder]
        /\ objs' = [objs EXCEPT !.short = IsmImport(data, Stored(data, "path"), <<>>)]
        /\ handles' = handles \cup IsmHandles(data, "path")
        /\ UNCHANGED <<input, callerBuf, ret, rt, codec, job>>

\* SetupCompensation(): every calibration value is the scalar default
NewSetupDefault(window_length, polyorder) ==
    /\ setup = NoObj
    /\ setup' = [kind |-> "SetupCompensation", shortData |-> "scalar",
                 smoothingWindowLength |-> window_length,
                 smoothingPolyOrder |-> polyorder]
    /\ UNCHANGED <<input, callerBuf, objs, ret, rt, codec, handles, job>>

\* compensationData.compensateIsm(ism, conjugateShort)
CompensateIsmCall(conjugateShort) ==
    /\ Live("meas")
    /\ setup # NoObj
    /\ LET r == compensateIsm(objs.meas, objs.short, setup.smoothingWindowLength,
                              setup.smoothingPolyOrder, conjugateShort,
                              StoredCopy(Content(objs.meas), input.passedAs))
       IN  /\ objs' = [objs EXCEPT !.short = r.short]
           /\ ret' = IF r.ok THEN [op |-> "compensateIsm", obj |-> r.obj]
                     ELSE [op |-> "compensateIsm", raised |-> r.err]
    /\ UNCHANGED <<input, callerBuf, setup, rt, codec, handles, job>>

Init ==
    /\ IsmIdle
    /\ rt = RtIdle
    /\ codec = CodecIdle

\* calibration spectra: a falling sweep, one with an overlapping start, and
\* a falling sweep with more points than the smoothing window
ShortFreqs == {<<3, 2, 1>>, <<2, 3, 1>>, <<4, 3, 2, 1>>}
SetupParams == {<<3, 0>>, <<5, 3>>}

ImportFile == \E f \in SeqsUpTo(FreqVals, MaxN) : Import(PlainDesc(f, FALSE), "path")
Smooth == \E wp \in SmoothParams : SmoothIsmCall(wp[1], wp[2])
NewSetup ==
    \/ \E f \in ShortFreqs, wp \in SetupParams : NewSetupWithShort(f, wp[1], wp[2])
    \/ NewSetupDefault(5, 3)
Compensate == \E conjugateShort \in BOOLEAN : CompensateIsmCall(conjugateShort)

Next ==
    \/ ImportFile
    \/ Smooth
    \/ NewSetup
    \/ Compensate

Spec == Init /\ [][Next]_vars

---------------------------------------------------------------------------
(* The same program reading the arrays and the retained bytes *)

\* how the buffer reaches the constructor, and whether the file has ACQ data
Ways == {<<"path", FALSE>>, <<"bytes", TRUE>>, <<"bytearray", FALSE>>}

ImportAny ==
    \E f \in SeqsUpTo(FreqVals, MaxN), way \in Ways :
        Import(PlainDesc(f, way[2]), way[1])
Get == \E which \in Accessors, inc \in BOOLEAN : Accessor(which, inc)

NextAccess ==
    \/ ImportAny
    \/ Get
    \/ Smooth
    \/ CallerWrites
    \/ GetBinaryFileContent
    \/ Save

SpecAccess == Init /\ [][NextAccess]_vars

---------------------------------------------------------------------------
(* Properties of the index range and of the getters *)

\* the objects the program holds: the decoded spectrum, the calibration
\* spectrum of the setup, and the spectrum compensateIsm has just returned
Spectra ==
    {objs[h] : h \in {k \in Holders : Live(k)}}
    \cup (IF ret.op = "compensateIsm" /\ "obj" \in DOMAIN ret THEN {ret.obj} ELSE {})

RangeValid(o) == 0 <= o.fromIndex /\ o.fromIndex <= o.toIndex /\ o.toIndex <= Len(o.frequency)

SwapConsistent(o) ==
    o.frequency # <<>> => (o.swapNecessary <=> ArgMin(o.frequency) > ArgMax(o.frequency))

\* C1: every spectrum the decoder produced, and every spectrum smoothIsm or
\* compensateIsm has worked on, has 0 <= fromIndex <= toIndex <= N, and its
\* swapNecessary is true exactly when the first minimum of its frequency
\* array lies behind the first maximum.
C1_RangeAndSwapInvariant ==
    \A o \in Spectra : RangeValid(o) /\ SwapConsistent(o)

\* the decoded spectrum is as the constructor left it
AsDecoded ==
    /\ Live("meas")
    /\ LET data == IsmBytes(input.d)
       IN  objs.meas = IsmImport(data, Stored(data, input.passedAs),
                                 Zeros(2 * Len(input.d.frequency)))

\* the array behind a getter
RawArray(o, which) ==
    CASE which = "frequency" -> o.frequency
      [] which = "impedance" -> o.impedance
      [] which = "phase" -> o.phase
      [] which = "significance" -> o.significance
      [] which = "timestamps" -> o.measurementTimeStamp
      [] which \in {"Voltage/V", "Current/A"} -> TrackData(o, which)

\* the elements of a at the 0-based positions lo..hi, both included
Between(a, lo, hi) == [k \in 1..(hi - lo + 1) |-> a[lo + k]]

CanonicalSlice(o, which, inc) ==
    LET raw == RawArray(o, which)
        minIdx == ArgMin(o.frequency)
        maxIdx == ArgMax(o.frequency)
        part == IF inc THEN raw ELSE Between(raw, Min(minIdx, maxIdx), Max(minIdx, maxIdx))
    IN  IF o.swapNecessary THEN Rev(part) ELSE part

\* C2: on a decoded spectrum every getter returns the raw elements between
\* the first minimum and the first maximum of the frequencies, both
\* included (all N raw elements with includeDoubleFrequencies=True), in raw
\* order when swapNecessary is false and reversed when it is true.
C2_GettersReturnCanonicalSlice ==
    (ret.op = "get" /\ AsDecoded) =>
        /\ Len(RawArray(objs.meas, ret.which)) = objs.meas.numberOfSamples
        /\ ret.val = CanonicalSlice(objs.meas, ret.which, ret.inc)

\* a getter has returned a trimmed and reversed ACQ track
C2_Witness ==
    /\ ret.op = "get" /\ AsDecoded
    /\ ret.which = "Current/A" /\ ~ret.inc
    /\ objs.meas.swapNecessary
    /\ Len(ret.val) = 2 /\ objs.meas.numberOfSamples = 3

StrictlyIncreasing(a) == \A k \in 1..(Len(a) - 1) : a[k] < a[k + 1]

\* C3: getFrequencyArray() of a spectrum with swapNecessary true is strictly
\* increasing; of a spectrum with swapNecessary false it is the raw slice
\* frequency[fromIndex:toIndex] in raw order.  Stated for spectra as the
\* constructor left them, so that a record smoothIsm has left half-written
\* is not what decides it.
C3_FrequenciesAscending ==
    (ret.op = "get" /\ ret.which = "frequency" /\ ~ret.inc /\ AsDecoded) =>
        IF objs.meas.swapNecessary
        THEN StrictlyIncreasing(ret.val)
        ELSE ret.val = PySlice(objs.meas.frequency, objs.meas.fromIndex, objs.meas.toIndex)

\* C10: what the decoder retains is the source bytes, whatever happens
\* later: getBinaryFileContent() returns them and save() writes them.
C10_RetainedBytesUnchanged ==
    /\ Live("meas") => Content(objs.meas) = IsmBytes(input.d)
    /\ ret.op = "getBinaryFileContent" => ret.val = IsmBytes(input.d)
    /\ ret.op = "save" => ret.written = IsmBytes(input.d)

---------------------------------------------------------------------------
(* Decoding files whose metadata block is damaged in one way or another *)

\* date strings, each with what it is: a calendar date, text that int()
\* rejects, or three numbers that are no calendar date
DateCases ==
    {[text |-> <<48, 50, 48, 49, 55, 48>>, class |-> "valid"],      \* "020170"
     [text |-> <<51, 49, 49, 50, 57, 57>>, class |-> "valid"],      \* "311299"
     [text |-> <<98, 97, 100, 33, 33, 120>>, class |-> "nondigit"], \* "bad!!x"
     [text |-> <<48, 49, 48, 49>>, class |-> "short"],              \* "0101"
     [text |-> <<>>, class |-> "short"],                            \* ""
     [text |-> <<51, 50, 48, 49, 57, 57>>, class |-> "range"],      \* "320199"
     [text |-> <<48, 49, 49, 51, 57, 57>>, class |-> "range"],      \* "011399"
     [text |-> <<51, 48, 48, 50, 57, 57>>, class |-> "range"]}      \* "300299"

\* acquisition flag and k-value 27, and whether they announce ACQ samples
AcqCases ==
    {[flag |-> 0, k27 |-> 0, has |-> FALSE],
     [flag |-> AcqFlagLimit + 1, k27 |-> AcqBit, has |-> TRUE],
     [flag |-> AcqFlagLimit + 1, k27 |-> 3 * AcqBit + 5, has |-> TRUE],
     [flag |-> AcqFlagLimit, k27 |-> AcqBit, has |-> FALSE],
     [flag |-> AcqFlagLimit + 1, k27 |-> AcqBit - 1, has |-> FALSE],
     [flag |-> AcqFlagLimit + 1, k27 |-> NaN, has |-> FALSE]}

\* the system string: plain text, or one byte that is not ASCII
SystemCases == {[text |-> SystemString, ascii |-> TRUE], [text |-> <<200>>, ascii |-> FALSE]}

\* how many bytes the end of the file lacks: none, one f8, one and a half
Cuts == {0, 8, 12}

\* a falling sweep of n samples
Falling(n) == [i \in 1..n |-> n + 1 - i]

MetaDesc(n, dc, ac, sc, cut) ==
    [PlainDesc(Falling(n), FALSE) EXCEPT
        !.date = dc.text,
        !.strings = [i \in 1..Len(StringFields) |-> IF i = 1 THEN sc.text ELSE <<>>],
        !.acqFlag = ac.flag,
        !.k27 = ac.k27,
        !.acq = IF ac.has THEN [j \in 1..(2 * n) |-> 30 + j] ELSE <<>>,
        !.cut = cut]
    @@ [dateClass |-> dc.class, hasAcq |-> ac.has, ascii |-> sc.ascii]

ImportDamaged ==
    \E n \in 0..(MaxN - 1), dc \in DateCases, ac \in AcqCases, sc \in SystemCases,
       cut \in Cuts :
        Import(MetaDesc(n, dc, ac, sc, cut), "path")

GetTrackTypesListCall ==
    /\ Live("meas")
    /\ ret' = [op |-> "getTrackTypesList", val |-> getTrackTypesList(objs.meas)]
    /\ UNCHANGED <<input, callerBuf, objs, setup, rt, codec, handles, job>>

GetTrackCall ==
    \E track \in {"Voltage/V", "Current/A"} : Accessor(track, TRUE)

NextMeta ==
    \/ ImportDamaged
    \/ GetTrackTypesListCall
    \/ GetTrackCall

SpecMeta == Init /\ [][NextMeta]_vars

\* bytes per sample in the five primary arrays: four f8 and one i2
SampleBytes == 4 * 8 + 2

\* the file is long enough for the header and the five primary arrays
PrimaryArraysDecode(d) ==
    d.count >= -1 /\ Len(IsmBytes(d)) >= 2 * 6 + SampleBytes * (d.count + 1)

\* something in the metadata block raises: a date that is no calendar
\* date, a string that is not ASCII, a k-value 27 that int() rejects, or a
\* block that ends early
MetaFails(d) == d.dateClass = "range" \/ ~d.ascii \/ d.k27 = NaN \/ d.cut > 0

PrimaryAsInFile(o, d) ==
    /\ o.numberOfSamples = d.count + 1
    /\ o.frequency = d.frequency /\ Len(o.frequency) = d.count + 1
    /\ o.impedance = d.impedance /\ Len(o.impedance) = d.count + 1
    /\ o.phase = d.phase /\ Len(o.phase) = d.count + 1
    /\ o.measurementTimeStamp = d.time /\ Len(o.measurementTimeStamp) = d.count + 1
    /\ o.significance = d.significance /\ Len(o.significance) = d.count + 1

\* C7: a date string that is not three 2-digit fields forming a calendar
\* date does not fail the record: the date is the fallback 1970-01-01, the
\* record's parsing flag is set, and the fields after the date are decoded.
C7_BadDateFallsBack ==
    (input # NoObj /\ input.d.dateClass # "valid"
        /\ input.d.ascii /\ input.d.k27 # NaN /\ input.d.cut = 0 /\ input.d.count >= 0) =>
        /\ Live("meas")
        /\ objs.meas.measurementDate = FallbackDate
        /\ objs.meas.metaDataAcqParsingErrorOccurred
        /\ objs.meas.system = input.d.strings[1]
        /\ objs.meas.amplitude = [num |-> input.d.k25, den |-> 1000]

\* C8 (as amended): when the five primary arrays decode and there is at
\* least one sample, construction succeeds whatever the metadata block
\* holds, metaDataAcqParsingErrorOccurred is True exactly when something in
\* the block raised, and the five arrays have length N and the file's values.
C8_MetaFailureContained ==
    (input # NoObj /\ PrimaryArraysDecode(input.d) /\ input.d.count >= 0) =>
        /\ Live("meas")
        /\ objs.meas.metaDataAcqParsingErrorOccurred <=> MetaFails(input.d)
        /\ PrimaryAsInFile(objs.meas, input.d)

\* a record built from a file with two samples whose ACQ samples end early
C8_Witness ==
    /\ Live("meas")
    /\ objs.meas.metaDataAcqParsingErrorOccurred
    /\ input.d.cut = 12 /\ input.d.hasAcq /\ input.d.dateClass = "valid" /\ input.d.ascii
    /\ objs.meas.frequency = <<2, 1>>

\* C8: the same for every file whose five primary arrays decode, a file
\* without samples included.
C8_AnySampleCount ==
    (input # NoObj /\ PrimaryArraysDecode(input.d)) =>
        /\ MetaFails(input.d) =>
              /\ Live("meas")
              /\ objs.meas.metaDataAcqParsingErrorOccurred
              /\ PrimaryAsInFile(objs.meas, input.d)
        /\ (~MetaFails(input.d) /\ Live("meas")) =>
              ~objs.meas.metaDataAcqParsingErrorOccurred

\* the ACQ samples the file really holds
SamplesInFile(d) == SubSeq(d.acq, 1, Max(0, (8 * Len(d.acq) - d.cut) \div 8))

\* C9: the record has the two channels "Voltage/V" and "Current/A", each
\* of length N and filled from the interleaved samples, voltage first,
\* exactly when the acquisition flag exceeds 256 and bit 15 of k-value 27
\* is set; otherwise it has no channel.
C9_ChannelsIffFlagAndBit ==
    (Live("meas") /\ input.d.dateClass # "range" /\ input.d.ascii) =>
        LET o == objs.meas
            n == o.numberOfSamples
        IN  IF input.d.hasAcq
            THEN /\ getTrackTypesList(o) = <<"Voltage/V", "Current/A">>
                 /\ Len(SamplesInFile(input.d)) = 2 * n
                 /\ getTrack(o, "Voltage/V", TRUE) = [j \in 1..n |-> input.d.acq[2 * j - 1]]
                 /\ getTrack(o, "Current/A", TRUE) = [j \in 1..n |-> input.d.acq[2 * j]]
            ELSE getTrackTypesList(o) = <<>>

---------------------------------------------------------------------------
(* ism_export.py: IsmExport.__init__, and a decode - export - decode trip *)

SignificanceWritten == 1000
NoStrings == [i \in 1..Len(StringFields) |-> <<>>]

\* an exporter that leaves the phase as the complex number's stored angle
ExportPhaseStored(z) == z.arg

\* np.angle of one sample, as the exporter takes it
ExportPhase(z) == NpAngle(z)

\* an exporter that writes the number of elements where the file format
\* has the number of elements less one
ExportContentFullCount(frequency, impedance, phase, numberOfElements, written, metaData) ==
    LET count == IntToBytesUnsigned(numberOfElements, 6)
    IN  IF ~count.ok THEN [ok |-> FALSE, err |-> count.err]
        ELSE IF \E i \in 1..Len(written) : ~written[i].ok
        THEN [ok |-> FALSE,
              err |-> written[CHOOSE i \in 1..Len(written) :
                                 ~written[i].ok /\ \A j \in 1..(i - 1) : written[j].ok].err]
        ELSE [ok |-> TRUE,
              bytes |-> <<0, 0, 255, 255, 255, 254>>
                        \o count.bytes
                        \o F8ArrayBytes(frequency) \o F8ArrayBytes(impedance)
                        \o F8ArrayBytes(phase)
                        \o F8ArrayBytes([i \in 1..numberOfElements |-> i - 1])
                        \o I2ArrayBytes([i \in 1..numberOfElements |-> 1000])
                        \o <<0, 0>>
                        \o Concat([i \in 1..Len(written) |-> written[i].bytes])
                        \o <<0, 0>>
                        \o metaData]

\* the file content from the arrays and the encoded strings
ExportContent(frequency, impedance, phase, numberOfElements, written, metaData) ==
    LET count == IntToBytesUnsigned(numberOfElements - 1, 6)
    IN  IF ~count.ok THEN [ok |-> FALSE, err |-> count.err]
        ELSE IF \E i \in 1..Len(written) : ~written[i].ok
        THEN [ok |-> FALSE,
              err |-> written[CHOOSE i \in 1..Len(written) :
                                 ~written[i].ok /\ \A j \in 1..(i - 1) : written[j].ok].err]
        ELSE [ok |-> TRUE,
              bytes |-> FileVersion
                        \o count.bytes
                        \o F8ArrayBytes(frequency) \o F8ArrayBytes(impedance)
                        \o F8ArrayBytes(phase)
                        \o F8ArrayBytes([i \in 1..numberOfElements |-> i - 1])
                        \o I2ArrayBytes([i \in 1..numberOfElements |-> SignificanceWritten])
                        \o LowBytes(0, 2)
                        \o Concat([i \in 1..Len(written) |-> written[i].bytes])
                        \o LowBytes(0, 2)
                        \o metaData]

ExportArrays(frequency, impedance, phase, strings, metaData) ==
    ExportContent(frequency, impedance, phase,
                  Min(Len(frequency), Min(Len(impedance), Len(phase))),
                  [i \in 1..Len(strings) |-> writeZahnerStringToBytes(strings[i])],
                  metaData)

ExportMagnitudes(Z) == [i \in 1..Len(Z) |-> NpAbs(Z[i])]
ExportPhases(Z) == [i \in 1..Len(Z) |-> ExportPhase(Z[i])]

\* IsmExport(ism=..., frequency=..., impedance=..., phase=..., <strings>,
\* metaData=...): ism is NoObj when the arrays are passed instead.  The
\* result is the file content, or the exception the constructor raised.
IsmExport(ism, frequency, impedance, phase, strings, metaData) ==
    IF ism # NoObj
    THEN ExportArrays(getFrequencyArray(ism, FALSE),
                      ExportMagnitudes(getComplexImpedanceArray(ism, FALSE)),
                      ExportPhases(getComplexImpedanceArray(ism, FALSE)),
                      strings, getMetaData(ism))
    ELSE ExportArrays(frequency, impedance, phase, strings, metaData)

\* what follows the ACQ samples in the first file
Blobs == {<<>>, <<7>>, [i \in 1..(2 + 8 * KValuesLength + 1) |-> IF i = 1 THEN 0 ELSE i % 2]}

\* the first file: impedance positive or negative, phase inside (-pi, pi]
\* or one turn above it
TripDesc(f, withAcq, negative, turned, blob) ==
    [PlainDesc(f, withAcq) EXCEPT
        !.impedance = [i \in 1..Len(f) |-> IF negative THEN -(10 + i) ELSE 10 + i],
        !.phase = [i \in 1..Len(f) |-> IF turned THEN 2 * i - 5 + 8 ELSE 2 * i - 5],
        !.trailing = blob]

ImportForTrip ==
    /\ rt.stage = "idle"
    /\ \E f \in SeqsUpTo(FreqVals, MaxN), withAcq, negative, turned \in BOOLEAN, blob \in Blobs :
          Import(TripDesc(f, withAcq, negative, turned, blob), "path")

\* export = IsmExport(ism=ism)
Export ==
    /\ Live("meas")
    /\ rt.stage = "idle"
    /\ LET e == IsmExport(objs.meas, <<>>, <<>>, <<>>, NoStrings, <<>>)
       IN  rt' = IF e.ok THEN [stage |-> "exported", content |-> e.bytes]
                 ELSE [stage |-> "failed", err |-> e.err]
    /\ UNCHANGED <<ismVars, codec>>

\* again = IsmImport(export.getBinaryFileContent())
ImportAgain ==
    /\ rt.stage = "exported"
    /\ \E garbage \in GarbageChoices(rt.content) :
          rt' = [stage |-> "decoded", content |-> rt.content,
                 again |-> IsmImport(rt.content, Stored(rt.content, "bytes"), garbage)]
    /\ handles' = handles \cup IsmHandles(rt.content, "bytes")
    /\ UNCHANGED <<input, callerBuf, objs, setup, ret, codec, job>>

NextRoundTrip ==
    \/ ImportForTrip
    \/ Export
    \/ ImportAgain

SpecRoundTrip == Init /\ [][NextRoundTrip]_vars

Distinct(a) == \A i, j \in 1..Len(a) : a[i] = a[j] => i = j

C5_MetaDataSurvives ==
    rt.stage = "decoded" =>
        /\ rt.again.kind = "IsmImport"
        /\ getMetaData(rt.again) = getMetaData(objs.meas)

---------------------------------------------------------------------------
(* The string codec driven on its own *)

\* 'a', 'B', '1', ' '
CodecAlphabet == {97, 66, 49, 32}
I2Max == 32768 - 1
LongString == [i \in 1..(I2Max + 1) |-> 97]
CodecStrings == SeqsUpTo(CodecAlphabet, MaxStrLen) \cup {LongString}

\* bytes that follow the string in the stream
CodecSuffix == <<0, 1>>


CodecWrite(s) ==
    /\ codec.stage = "idle"
    /\ codec' = [stage |-> "written", s |-> s, out |-> writeZahnerStringToBytes(s)]
    /\ UNCHANGED <<ismVars, rt>>

CodecRead ==
    /\ codec.stage = "written"
    /\ codec.out.ok
    /\ codec' = [stage |-> "read", s |-> codec.s, out |-> codec.out,
                 in |-> readZahnerStringFromFile(codec.out.bytes \o CodecSuffix, 0)]
    /\ UNCHANGED <<ismVars, rt>>

InitCodec ==
    /\ IsmIdle
    /\ rt = RtIdle
    /\ codec = CodecIdle

NextCodec ==
    \/ \E s \in CodecStrings : CodecWrite(s)
    \/ CodecRead

SpecCodec == InitCodec /\ [][NextCodec]_vars

\* C6 (as amended): for every ASCII string s of at most 32767 characters,
\* writeZahnerStringToBytes(s) succeeds, and readZahnerStringFromFile on its
\* bytes returns s and advances the stream by exactly 2 + len(s) bytes.
C6_CodecRoundTrip ==
    /\ (codec.stage # "idle" /\ Len(codec.s) <= I2Max) => codec.out.ok
    /\ codec.stage = "read" =>
          /\ codec.in.ok
          /\ codec.in.val = codec.s
          /\ codec.in.pos = 2 + Len(codec.s)

\* a string with letters of both cases has been written and read back
C6_Witness ==
    /\ codec.stage = "read"
    /\ codec.s = <<97, 66, 49>>
    /\ codec.in.ok

\* C6 (as claimed): for ANY ASCII string s the bytes of
\* writeZahnerStringToBytes(s) exist and read back as s, 2 + len(s) bytes on.
C6_AnyAsciiString ==
    /\ codec.stage # "idle" => codec.out.ok
    /\ codec.stage = "read" =>
          /\ codec.in.ok
          /\ codec.in.val = codec.s
          /\ codec.in.pos = 2 + Len(codec.s)

---------------------------------------------------------------------------
(* Text functions of the Python library that the CV and polarization      *)
(* decoders apply to the strings of a file                                 *)

\* str.split(sep) for a one-character separator: the parts, sep removed
RECURSIVE SplitFrom(_, _, _, _)
SplitFrom(s, sep, i, part) ==
    IF i > Len(s) THEN <<part>>
    ELSE IF s[i] = sep THEN <<part>> \o SplitFrom(s, sep, i + 1, <<>>)
    ELSE SplitFrom(s, sep, i + 1, Append(part, s[i]))

Split(s, sep) == SplitFrom(s, sep, 1, <<>>)

\* float(s) on the strings a buffer is given here: an integer literal with
\* optional sign and surrounding white space gives that number, text that
\* is no numeral raises ValueError (decimal points and exponents are not
\* among the strings generated)
PyFloat(s) == PyInt(s)

\* datetime.strptime(s, "%d%m%y%H:%M:%S"): _strptime turns the format into
\* one regular expression, a group of alternatives per directive, matches
\* it at the start of s and then requires that nothing of s remains
StrpFormat == <<"d", "m", "y", "H", ":", "M", ":", "S">>

\* the two-character alternatives of a directive
StrpTwo(k, a, b) ==
    CASE k = "d" -> \/ a = 51 /\ b \in {48, 49}
                    \/ a \in {49, 50} /\ IsDigit(b)
                    \/ a = 48 /\ b >= 49 /\ b <= 57
      [] k = "m" -> \/ a = 49 /\ b \in {48, 49, 50}
                    \/ a = 48 /\ b >= 49 /\ b <= 57
      [] k = "y" -> IsDigit(a) /\ IsDigit(b)
      [] k = "H" -> \/ a = 50 /\ b \in {48, 49, 50, 51}
                    \/ a \in {48, 49} /\ IsDigit(b)
      [] k = "M" -> a >= 48 /\ a <= 53 /\ IsDigit(b)
      [] k = "S" -> \/ a = 54 /\ b \in {48, 49}
                    \/ a >= 48 /\ a <= 53 /\ IsDigit(b)
      [] OTHER -> FALSE

\* the one-character alternative
StrpOne(k, a) ==
    CASE k \in {"d", "m"} -> a >= 49 /\ a <= 57
      [] k \in {"H", "M", "S"} -> IsDigit(a)
      [] k = ":" -> a = 58
      [] OTHER -> FALSE

\* the lengths directive k can take at position p, in the order the
\* alternatives are tried
StrpOptions(k, s, p) ==
    (IF Len(s) >= p + 2 /\ StrpTwo(k, s[p + 1], s[p + 2]) THEN <<2>> ELSE <<>>)
    \o (IF Len(s) >= p + 1 /\ StrpOne(k, s[p + 1]) THEN <<1>> ELSE <<>>)
    \o (IF k = "d" /\ Len(s) >= p + 2 /\ s[p + 1] = 32 /\ s[p + 2] >= 49 /\ s[p + 2] <= 57
        THEN <<2>> ELSE <<>>)

\* int() of the matched group
StrpValue(s, p, n) ==
    IF s[p + 1] \in {32, 58} THEN (IF n = 2 THEN s[p + 2] - 48 ELSE 0)
    ELSE DigitsValue(SubSeq(s, p + 1, p + n))

\* the first match of the directives from the k-th on, backtracking over
\* the alternatives of each
RECURSIVE StrpMatch(_, _, _, _)
RECURSIVE StrpFirst(_, _, _, _, _)
StrpPick(s, p, k, vals, opts, r) ==
    IF r.ok THEN r ELSE StrpFirst(s, p, k, vals, Tail(opts))

StrpFirst(s, p, k, vals, opts) ==
    IF opts = <<>> THEN [ok |-> FALSE]
    ELSE StrpPick(s, p, k, vals, opts,
                  StrpMatch(s, p + Head(opts), k + 1,
                            Append(vals, StrpValue(s, p, Head(opts)))))

StrpMatch(s, p, k, vals) ==
    IF k > Len(StrpFormat) THEN [ok |-> TRUE, end |-> p, vals |-> vals]
    ELSE StrpFirst(s, p, k, vals, StrpOptions(StrpFormat[k], s, p))

\* two-digit years: 69..99 are 1969..1999, 0..68 are 2000..2068
StrpYear(y) == IF y < 69 THEN 2000 + y ELSE 1900 + y

StrpResult(s, found) ==
    IF ~found.ok \/ found.end # Len(s)
    THEN [ok |-> FALSE, err |-> "ValueError"]
    ELSE IF ~DateTimeValid(StrpYear(found.vals[3]), found.vals[2], found.vals[1])
            \/ found.vals[8] > 59
    THEN [ok |-> FALSE, err |-> "ValueError"]
    ELSE [ok |-> TRUE,
          val |-> [year |-> StrpYear(found.vals[3]), month |-> found.vals[2],
                   day |-> found.vals[1], hour |-> found.vals[4],
                   minute |-> found.vals[6], second |-> found.vals[8]]]

strptime(s) == StrpResult(s, StrpMatch(s, 0, 1, <<>>))


---------------------------------------------------------------------------
(* re.search for the patterns of the power-of-potential-factor annotation *)
(* A pattern is a sequence of items: one character ("char"), a repetition *)
(* of a character class, greedy or lazy, that may be a capture group      *)
(* ("star"), a greedy repetition of at least one ("plus"), or the end of  *)
(* the string ("end").  The annotation patterns start with ^, so their     *)
(* search is a match at position 0.                                        *)

ReLit(c) == [kind |-> "char", class |-> "lit", c |-> c]
ReDot == [kind |-> "char", class |-> "dot", c |-> 0]
ReStar(class, c, greedy, group) ==
    [kind |-> "star", class |-> class, c |-> c, greedy |-> greedy, group |-> group]
RePlus(class, group) ==
    [kind |-> "plus", class |-> class, c |-> 0, greedy |-> TRUE, group |-> group]
ReEnd == [kind |-> "end"]

\* \s*, (.*?) as group g, .*, .*?, " *" and (.*) as group g
ReSpaces == ReStar("space", 0, TRUE, 0)
ReLazyGroup(g) == ReStar("dot", 0, FALSE, g)
ReAnything == ReStar("dot", 0, TRUE, 0)
ReLazyAnything == ReStar("dot", 0, FALSE, 0)
ReBlanks == ReStar("lit", 32, TRUE, 0)
ReGreedyGroup(g) == ReStar("dot", 0, TRUE, g)

ReInClass(t, ch) ==
    CASE t.class = "lit" -> ch = t.c
      [] t.class = "dot" -> ch # 10
      [] t.class = "space" -> IsSpace(ch)
      [] t.class = "nonspace" -> ~IsSpace(ch)
      [] t.class = "nonspace or blank" -> ~IsSpace(ch) \/ ch = 32

\* how many characters from position p on belong to the class of t: up to
\* the first that does not, or to the end
ReRun(s, p, t) ==
    (CHOOSE q \in (p + 1)..(Len(s) + 1) :
        /\ q = Len(s) + 1 \/ ~ReInClass(t, s[q])
        /\ \A r \in (p + 1)..(q - 1) : ReInClass(t, s[r])) - 1 - p

ReNoGroups == [g \in 1..4 |-> [matched |-> FALSE]]
ReFail == [ok |-> FALSE]

RECURSIVE ReMatch(_, _, _, _, _)
\* the match of the rest of the pattern after n repetitions of item k
ReRest(s, p, toks, k, groups, n) ==
    ReMatch(s, p + n, toks, k + 1,
            IF toks[k].group > 0
            THEN [groups EXCEPT ![toks[k].group] =
                     [matched |-> TRUE, text |-> SubSeq(s, p + 1, p + n)]]
            ELSE groups)

\* the first number of repetitions in least..most after which the rest
\* matches: a greedy repetition tries the larger numbers first, a lazy one
\* the smaller; the range is searched half by half
RECURSIVE ReTry(_, _, _, _, _, _, _, _)
ReElse(r, s, p, toks, k, groups, least, most, greedy) ==
    IF r.ok THEN r ELSE ReTry(s, p, toks, k, groups, least, most, greedy)

ReTry(s, p, toks, k, groups, least, most, greedy) ==
    IF least > most THEN ReFail
    ELSE IF least = most THEN ReRest(s, p, toks, k, groups, least)
    ELSE IF greedy
    THEN ReElse(ReTry(s, p, toks, k, groups, (least + most) \div 2 + 1, most, greedy),
                s, p, toks, k, groups, least, (least + most) \div 2, greedy)
    ELSE ReElse(ReTry(s, p, toks, k, groups, least, (least + most) \div 2, greedy),
                s, p, toks, k, groups, (least + most) \div 2 + 1, most, greedy)

ReItem(s, p, toks, k, groups, t, run) ==
    CASE t.kind = "end" ->
            IF p = Len(s) \/ (p = Len(s) - 1 /\ s[Len(s)] = 10)
            THEN ReMatch(s, p, toks, k + 1, groups) ELSE ReFail
      [] t.kind = "char" ->
            IF p < Len(s) /\ ReInClass(t, s[p + 1])
            THEN ReMatch(s, p + 1, toks, k + 1, groups) ELSE ReFail
      [] t.kind = "star" -> ReTry(s, p, toks, k, groups, 0, run, t.greedy)
      [] t.kind = "plus" -> ReTry(s, p, toks, k, groups, 1, run, t.greedy)

ReMatch(s, p, toks, k, groups) ==
    IF k > Len(toks) THEN [ok |-> TRUE, groups |-> groups, end |-> p]
    ELSE ReItem(s, p, toks, k, groups, toks[k],
                IF toks[k].kind \in {"star", "plus"} THEN ReRun(s, p, toks[k]) ELSE 0)

ReSearch(toks, s) == ReMatch(s, 0, toks, 1, ReNoGroups)

\* "PO.PF"
RePopf == <<ReLit(80), ReLit(79), ReDot, ReLit(80), ReLit(70)>>

\* r"^\s*(.*?),\s*(.*?)\s*PO.PF *(.*?), *(.*)$"
IscPopfPattern ==
    <<ReSpaces, ReLazyGroup(1), ReLit(44), ReSpaces, ReLazyGroup(2), ReSpaces>>
    \o RePopf
    \o <<ReBlanks, ReLazyGroup(3), ReLit(44), ReBlanks, ReGreedyGroup(4), ReEnd>>

\* r"^\s*(.*?),\\s*(.*?)\s*PO.PF.*": in a raw string \\s* is a backslash
\* followed by any number of the letter s
IscPopfFallbackPattern ==
    <<ReSpaces, ReLazyGroup(1), ReLit(44), ReLit(92), ReStar("lit", 115, TRUE, 0),
      ReLazyGroup(2), ReSpaces>>
    \o RePopf \o <<ReAnything>>

\* "^\s*(.*?),\s*(.*?)\s*PO.PF.*Ima.*?,(.*?), *(.*)$"
IssPopfPattern ==
    <<ReSpaces, ReLazyGroup(1), ReLit(44), ReSpaces, ReLazyGroup(2), ReSpaces>>
    \o RePopf
    \o <<ReAnything, ReLit(73), ReLit(109), ReLit(97), ReLazyAnything, ReLit(44),
         ReLazyGroup(3), ReLit(44), ReBlanks, ReGreedyGroup(4), ReEnd>>

\* "^\s*(.*?),\\s*(.*?)\s*PO.PF.*": not a raw string, so \\s* is \s*
IssPopfFallbackPattern ==
    <<ReSpaces, ReLazyGroup(1), ReLit(44), ReSpaces, ReLazyGroup(2), ReSpaces>>
    \o RePopf \o <<ReAnything>>


---------------------------------------------------------------------------
(* isc_import.py and iss_import.py: what the two constructors share *)

\* position of a name in a sequence of names
IndexOf(names, name) == CHOOSE i \in 1..Len(names) : names[i] = name

\* one readF8FromFile per name; the first short read raises struct.error
ReadF8Fields(data, pos, names) ==
    IF Len(data) - pos < 8 * Len(names)
    THEN [ok |-> FALSE, err |-> "struct.error", pos |-> Len(data)]
    ELSE [ok |-> TRUE,
          val |-> [i \in 1..Len(names) |->
                      F8FromBytes(SubSeq(data, pos + 8 * i - 7, pos + 8 * i))],
          pos |-> pos + 8 * Len(names)]

\* n times readZahnerStringFromFile; the first that raises ends it
RECURSIVE ReadStrings(_, _, _, _)
TakeString(data, n, vals, r) ==
    IF ~r.ok THEN [ok |-> FALSE, err |-> r.err, pos |-> r.pos]
    ELSE ReadStrings(data, r.pos, n - 1, Append(vals, r.val))

ReadStrings(data, pos, n, vals) ==
    IF n = 0 THEN [ok |-> TRUE, vals |-> vals, pos |-> pos]
    ELSE TakeString(data, n, vals, readZahnerStringFromFile(data, pos))

\* the twelve strings, the same attributes in both classes but for the
\* electrode area
CvStrings ==
    <<"Date", "System", "Temperature", "Time", "Slew_Rate", "Comment_1",
      "Comment_2", "Comment_3", "Comment_4", "Comment_5", "ElecArea", "POPF">>

\* starttime, endtime = self.Time.split("-")
UnpackTimes(parts) ==
    IF Len(parts) # 2 THEN [ok |-> FALSE, err |-> "ValueError"]
    ELSE [ok |-> TRUE, starttime |-> parts[1], endtime |-> parts[2]]

\* the two strptime calls, the second only when the first returned
BothTimes(start, end) ==
    IF ~start.ok THEN start
    ELSE IF ~end.ok THEN end
    ELSE [ok |-> TRUE, start |-> start.val, end |-> end.val]

ParseTimes(Date, times) ==
    BothTimes(strptime(Date \o times.starttime), strptime(Date \o times.endtime))

\* the four float() calls after the first pattern matched
PopfFromGroups(offset, factor, PowerOfPotentialScaling, ExtraOffsetX) ==
    IF ~offset.ok \/ ~factor.ok \/ ~PowerOfPotentialScaling.ok \/ ~ExtraOffsetX.ok
    THEN [ok |-> FALSE, err |-> "ValueError"]
    ELSE [ok |-> TRUE, offset |-> offset.val, factor |-> factor.val]

\* the branch taken when the first pattern did not match
PopfFromFallback(popfMatch) ==
    IF ~popfMatch.ok THEN [ok |-> TRUE, offset |-> 0, factor |-> 1]
    ELSE PopfFromGroups(PyFloat(popfMatch.groups[1].text), PyFloat(popfMatch.groups[2].text),
                        [ok |-> TRUE], [ok |-> TRUE])

PopfChoose(popfMatch, fallback, POPF) ==
    IF popfMatch.ok
    THEN PopfFromGroups(PyFloat(popfMatch.groups[1].text), PyFloat(popfMatch.groups[2].text),
                        PyFloat(popfMatch.groups[3].text), PyFloat(popfMatch.groups[4].text))
    ELSE PopfFromFallback(ReSearch(fallback, POPF))

\* offset and factor from the annotation, or the exception a float() raised
PopfDecode(primary, fallback, POPF) == PopfChoose(ReSearch(primary, POPF), fallback, POPF)

\* intVoltageRead * (factor / 8000.0) + offset.  Voltages are kept as
\* multiples of 1/8000 V, which keeps the arithmetic in the integers.
VoltageDivisor == 8000
ScaleVoltage(intVoltageRead, factor, offset) ==
    [i \in 1..Len(intVoltageRead) |-> intVoltageRead[i] * factor + VoltageDivisor * offset]

CvRaised(err) == [kind |-> "raised", err |-> err]


---------------------------------------------------------------------------
(* isc_import.py: IscImport.__init__ *)

\* the seventeen doubles at the head of a CV file
IscHeader ==
    <<"Pstart", "Tstart", "Pupper", "Plower", "Tend", "Pend", "Srate", "Periods",
      "PpPer", "Imi", "Ima", "Odrop", "Sstart", "Send", "AZeit", "ZpMp", "delay">>

maximumNumberOfAcqChannels == 32
AcqCoefficients == 11
AcqMinRemaining == 400

InSeq(x, s) == \E i \in 1..Len(s) : s[i] = x

\* str(n) for n >= 0
RECURSIVE Decimal(_)
Decimal(n) == IF n < 10 THEN <<48 + n>> ELSE Append(Decimal(n \div 10), 48 + (n % 10))

\* the first of channelName-1, channelName-2, ... that is not yet a name
RECURSIVE FreshName(_, _, _)
FreshName(names, channelName, index) ==
    IF InSeq(channelName \o <<45>> \o Decimal(index), names)
    THEN FreshName(names, channelName, index + 1)
    ELSE channelName \o <<45>> \o Decimal(index)

UniqueName(names, channelName) ==
    IF InSeq(channelName, names) THEN FreshName(names, channelName, 1) ELSE channelName

\* the loop over the channel names
RECURSIVE ReadNames(_, _, _, _)
TakeName(data, n, names, r) ==
    IF ~r.ok THEN [ok |-> FALSE, err |-> r.err, pos |-> r.pos]
    ELSE ReadNames(data, r.pos, n - 1, Append(names, UniqueName(names, r.val)))

ReadNames(data, pos, n, names) ==
    IF n = 0 THEN [ok |-> TRUE, vals |-> names, pos |-> pos]
    ELSE TakeName(data, n, names, readZahnerStringFromFile(data, pos))

\* the coefficient arrays, read and dropped
SkipCoefficients(data, pos) ==
    IF Len(data) - pos < 8 * AcqCoefficients * maximumNumberOfAcqChannels
    THEN [ok |-> FALSE, err |-> "TypeError", pos |-> Len(data)]
    ELSE [ok |-> TRUE, pos |-> pos + 8 * AcqCoefficients * maximumNumberOfAcqChannels]

\* the loop over the channels.  What readF8ArrayFromFile returns is a numpy
\* array, which has no append: the first row to add raises AttributeError.
RECURSIVE AcqChannels(_, _, _, _, _, _)
AcqDropped(data, names, channel, c, acqData, kept, dropped) ==
    IF ~dropped.ok THEN [ok |-> FALSE, err |-> dropped.err]
    ELSE IF c.numberOfRowsToAdd > 0 THEN [ok |-> FALSE, err |-> "AttributeError"]
    ELSE AcqChannels(data, dropped.pos, names, channel + 1, c,
                     Append(acqData, [name |-> names[channel + 1], data |-> kept]))

AcqKept(data, names, channel, c, acqData, kept) ==
    IF ~kept.ok THEN [ok |-> FALSE, err |-> kept.err]
    ELSE AcqDropped(data, names, channel, c, acqData, kept.val,
                    readF8ArrayFromFile(data, kept.pos, c.numberOfRowsToDrop))

AcqChannels(data, pos, names, channel, c, acqData) ==
    IF channel >= c.numberOfAcqChannels THEN [ok |-> TRUE, acqData |-> acqData]
    ELSE IF channel >= Len(names) THEN [ok |-> FALSE, err |-> "IndexError"]
    ELSE AcqKept(data, names, channel, c, acqData,
                 readF8ArrayFromFile(data, pos, c.numberOfAcqRows - c.numberOfRowsToDrop))

\* rows to add and rows to drop from the two counts
AcqCounts(numberOfElements, numberOfAcqRows, numberOfAcqChannels) ==
    [numberOfAcqRows |-> numberOfAcqRows,
     numberOfAcqChannels |-> numberOfAcqChannels,
     numberOfRowsToAdd |-> Max(0, numberOfElements - numberOfAcqRows),
     numberOfRowsToDrop |-> IF numberOfElements - numberOfAcqRows < 0
                            THEN Abs(numberOfElements - numberOfAcqRows) ELSE 0]

AcqWithCounts(data, pos, names, units, c, channels) ==
    IF ~channels.ok THEN channels
    ELSE [ok |-> TRUE, names |-> names, units |-> units, acqData |-> channels.acqData]

AcqWithRows(data, n, names, units, rows, chans) ==
    AcqWithCounts(data, chans.pos, names, units,
                  AcqCounts(n, rows.val + 1, chans.val + 1),
                  AcqChannels(data, chans.pos, names, 0,
                              AcqCounts(n, rows.val + 1, chans.val + 1), <<>>))

AcqWithCoefficients(data, n, names, units, skipped, rows) ==
    IF ~skipped.ok THEN [ok |-> FALSE, err |-> skipped.err]
    ELSE AcqWithRows(data, n, names, units, rows, readI6FromFile(data, rows.pos))

AcqWithUnits(data, n, names, units, skipped) ==
    IF ~units.ok THEN [ok |-> FALSE, err |-> units.err]
    ELSE AcqWithCoefficients(data, n, names, units.vals, skipped,
                             readI6FromFile(data, skipped.pos))

AcqWithNames(data, n, names, units) ==
    IF ~names.ok THEN [ok |-> FALSE, err |-> names.err]
    ELSE AcqWithUnits(data, n, names.vals, units,
                      SkipCoefficients(data, IF units.ok THEN units.pos ELSE 0))

AcqWithNumbers(data, n, acqChannelNumbers, names) ==
    IF ~acqChannelNumbers.ok THEN [ok |-> FALSE, err |-> acqChannelNumbers.err]
    ELSE AcqWithNames(data, n, names,
                      ReadStrings(data, IF names.ok THEN names.pos ELSE 0,
                                  maximumNumberOfAcqChannels, <<>>))

\* the body of the try: ok with the three tables, or the exception raised
AcqBlock(data, pos, n) ==
    AcqWithNumbers(data, n, readI2ArrayFromFile(data, pos, maximumNumberOfAcqChannels),
                   ReadNames(data, pos + 2 * maximumNumberOfAcqChannels,
                             maximumNumberOfAcqChannels, <<>>))


\* the except branch of the ACQ block: the flag and the empty tables
AcqExceptStillTrue(block) ==
    [acqDecoderSuccess |-> "True", acqChannelNames |-> <<>>,
     acqChannelUnits |-> <<>>, acqData |-> <<>>]

AcqExcept(block) ==
    [acqDecoderSuccess |-> "False", acqChannelNames |-> <<>>,
     acqChannelUnits |-> <<>>, acqData |-> <<>>]

AcqOutcome(block) ==
    IF ~block.ok THEN AcqExcept(block)
    ELSE [acqDecoderSuccess |-> "True", acqChannelNames |-> block.names,
          acqChannelUnits |-> block.units, acqData |-> block.acqData]

\* remainingBytes > 400 decides whether the block is tried at all
IscAcq(data, pos, n) ==
    IF Len(data) - pos > AcqMinRemaining THEN AcqOutcome(AcqBlock(data, pos, n))
    ELSE [acqDecoderSuccess |-> "None", acqChannelNames |-> <<>>,
          acqChannelUnits |-> <<>>, acqData |-> <<>>]

\* the object the constructor leaves
IscConstructed(content, p, times, popf, acq) ==
    [kind |-> "IscImport",
     _binaryFileContent |-> content,
     numberOfElements |-> p.n,
     current |-> p.current,
     Date |-> p.strings[IndexOf(CvStrings, "Date")],
     Time |-> p.strings[IndexOf(CvStrings, "Time")],
     POPF |-> p.strings[IndexOf(CvStrings, "POPF")],
     measurementStartDateTime |-> times.start,
     measurementEndDateTime |-> times.end,
     voltage |-> ScaleVoltage(p.intVoltageRead, popf.factor, popf.offset),
     time |-> [i \in 1..Max(0, p.n) |->
                  (i - 1) * p.head[IndexOf(IscHeader, "ZpMp")]
                  + p.head[IndexOf(IscHeader, "Sstart")]],
     acqDecoderSuccess |-> acq.acqDecoderSuccess,
     acqChannelNames |-> acq.acqChannelNames,
     acqChannelUnits |-> acq.acqChannelUnits,
     acqData |-> acq.acqData]

IscWithPopf(data, content, p, times, popf) ==
    IF ~popf.ok THEN CvRaised(popf.err)
    ELSE IscConstructed(content, p, times, popf, IscAcq(data, p.pos, p.n))

IscWithTimes(data, content, p, times) ==
    IF ~times.ok THEN CvRaised(times.err)
    ELSE IscWithPopf(data, content, p, times,
                     PopfDecode(IscPopfPattern, IscPopfFallbackPattern,
                                p.strings[IndexOf(CvStrings, "POPF")]))

\* no try around the split and the two strptime calls
IscWithSplit(data, content, p, parts) ==
    IF ~parts.ok THEN CvRaised(parts.err)
    ELSE IscWithTimes(data, content, p,
                      ParseTimes(p.strings[IndexOf(CvStrings, "Date")], parts))

IscWithStrings(data, content, head, n, intVoltageRead, current, strings) ==
    IF ~strings.ok THEN CvRaised(strings.err)
    ELSE IscWithSplit(data, content,
                      [head |-> head, n |-> n, intVoltageRead |-> intVoltageRead,
                       current |-> current, strings |-> strings.vals, pos |-> strings.pos],
                      UnpackTimes(Split(strings.vals[IndexOf(CvStrings, "Time")], 45)))

IscWithCurrent(data, content, head, n, intVoltageRead, current) ==
    IF ~current.ok THEN CvRaised(current.err)
    ELSE IscWithStrings(data, content, head, n, intVoltageRead, current.val,
                        ReadStrings(data, current.pos, Len(CvStrings), <<>>))

IscWithVoltage(data, content, head, n, intVoltageRead) ==
    IF ~intVoltageRead.ok THEN CvRaised(intVoltageRead.err)
    ELSE IscWithCurrent(data, content, head, n, intVoltageRead.val,
                        readF8ArrayFromFile(data, intVoltageRead.pos, n))

IscWithCount(data, content, head, count) ==
    IscWithVoltage(data, content, head, count.val + 1,
                   readI2ArrayFromFile(data, count.pos, count.val + 1))

IscWithHeader(data, content, head) ==
    IF ~head.ok THEN CvRaised(head.err)
    ELSE IscWithCount(data, content, head.val, readI6FromFile(data, head.pos))

IscImport(data, content) == IscWithHeader(data, content, ReadF8Fields(data, 0, IscHeader))

getAcqDecoded(o) == o.acqDecoderSuccess
getAcqChannelNamesList(o) == o.acqChannelNames
getAcqChannelUnitsList(o) == o.acqChannelUnits

\* self.acqData[track]
getAcqChannel(o, track) ==
    IF \E i \in 1..Len(o.acqData) : o.acqData[i].name = track
    THEN [ok |-> TRUE,
          val |-> o.acqData[CHOOSE i \in 1..Len(o.acqData) : o.acqData[i].name = track].data]
    ELSE [ok |-> FALSE, err |-> "KeyError"]

getVoltageArray(o) == o.voltage
getCurrentArray(o) == o.current
getTimeArray(o) == o.time


---------------------------------------------------------------------------
(* CV buffers handed to IscImport *)

\* "010199" and "10:00:00-10:05:00"
CvGoodDate == <<48, 49, 48, 49, 57, 57>>
CvGoodTime == <<49, 48, 58, 48, 48, 58, 48, 48, 45, 49, 48, 58, 48, 53, 58, 48, 48>>
\* " 1, 2 PO.PF 3, 4"
CvGoodPopf == <<32, 49, 44, 32, 50, 32, 80, 79, 46, 80, 70, 32, 51, 44, 32, 52>>

\* the ACQ block of a file: 32 channel numbers, 32 names of which the first
\* two are both "U", 32 units, the coefficients, the two counts and the
\* rows of each channel, the last cut bytes missing
AcqNamesInFile == [i \in 1..maximumNumberOfAcqChannels |-> IF i <= 2 THEN <<85>> ELSE <<>>]
AcqUnitsInFile == [i \in 1..maximumNumberOfAcqChannels |-> IF i <= 2 THEN <<86>> ELSE <<>>]
AcqRowsInFile(channel, rows) == [r \in 1..rows |-> 10 * channel + r]

AcqBlockBytes(a) ==
    LET whole ==
            Zeros(2 * maximumNumberOfAcqChannels)
            \o Concat([i \in 1..maximumNumberOfAcqChannels |-> RawString(AcqNamesInFile[i])])
            \o Concat([i \in 1..maximumNumberOfAcqChannels |-> RawString(AcqUnitsInFile[i])])
            \o Zeros(8 * AcqCoefficients * maximumNumberOfAcqChannels)
            \o IntToBytesSigned(a.rows - 1, 6).bytes
            \o IntToBytesSigned(a.channels - 1, 6).bytes
            \o Concat([c \in 1..a.channels |-> F8ArrayBytes(AcqRowsInFile(c, a.rows))])
    IN  SubSeq(whole, 1, Len(whole) - a.cut)

\* what follows the strings: nothing, bytes that are no ACQ block, or a block
AcqBytes(a) ==
    CASE a.kind = "none" -> <<>>
      [] a.kind = "zeros" -> Zeros(a.length)
      [] a.kind = "block" -> AcqBlockBytes(a)

CvStringsInFile(d) ==
    [i \in 1..Len(CvStrings) |->
        CASE CvStrings[i] = "Date" -> d.date
          [] CvStrings[i] = "Time" -> d.time
          [] CvStrings[i] = "POPF" -> d.popf
          [] OTHER -> <<>>]

CvVoltageInFile(m) == [i \in 1..m |-> 100 * i]
CvCurrentInFile(m) == [i \in 1..m |-> 20 + i]
IscHeaderInFile ==
    [i \in 1..Len(IscHeader) |->
        IF IscHeader[i] = "ZpMp" THEN 2 ELSE IF IscHeader[i] = "Sstart" THEN 5 ELSE 0]

IscPrimaryBytes(d) ==
    F8ArrayBytes(IscHeaderInFile)
    \o IntToBytesSigned(d.m - 1, 6).bytes
    \o I2ArrayBytes(CvVoltageInFile(d.m))
    \o F8ArrayBytes(CvCurrentInFile(d.m))
    \o Concat([i \in 1..Len(CvStrings) |-> RawString(CvStringsInFile(d)[i])])

IscBytes(d) == IscPrimaryBytes(d) \o AcqBytes(d.acq)

\* what can follow the primary fields of a file with m samples
CvAcqCases(m) ==
    {[kind |-> "none"]}
    \cup {[kind |-> "zeros", length |-> n] : n \in {AcqMinRemaining, AcqMinRemaining + 1}}
    \cup {[kind |-> "block", rows |-> r, channels |-> c, cut |-> cut] :
            r \in (m - 1)..(m + 1), c \in 0..2, cut \in {0, 8}}

\* date strings: "010199", "320199" and "0101"
CvDateCases ==
    {[text |-> CvGoodDate, class |-> "valid"],
     [text |-> <<51, 50, 48, 49, 57, 57>>, class |-> "date"],
     [text |-> <<48, 49, 48, 49>>, class |-> "date"]}

\* time strings: "10:00:00-10:05:00", "10:00-10:05:00", "10:00:00" and
\* "10:00:00-10:05:00-"
CvTimeCases ==
    {[text |-> CvGoodTime, class |-> "valid", parts |-> 2],
     [text |-> <<49, 48, 58, 48, 48, 45, 49, 48, 58, 48, 53, 58, 48, 48>>,
      class |-> "format", parts |-> 2],
     [text |-> <<49, 48, 58, 48, 48, 58, 48, 48>>, class |-> "parts", parts |-> 1],
     [text |-> Append(CvGoodTime, 45), class |-> "parts", parts |-> 3]}

\* annotations: " 1, 2 PO.PF 3, 4", "1,2 PO.PF", "", "a,b PO.PF c,d",
\* "1,2 PO.PF 3,", "1,\2 PO.PF" and "1,2 PO.PF Ima,3,4"
PopfCases ==
    {CvGoodPopf,
     <<49, 44, 50, 32, 80, 79, 46, 80, 70>>,
     <<>>,
     <<97, 44, 98, 32, 80, 79, 46, 80, 70, 32, 99, 44, 100>>,
     <<49, 44, 50, 32, 80, 79, 46, 80, 70, 32, 51, 44>>,
     <<49, 44, 92, 50, 32, 80, 79, 46, 80, 70>>,
     <<49, 44, 50, 32, 80, 79, 46, 80, 70, 32, 73, 109, 97, 44, 51, 44, 52>>}

CvDesc(m, dc, tc, popf, acq) ==
    [m |-> m, date |-> dc.text, dateClass |-> dc.class,
     time |-> tc.text, timeClass |-> tc.class,
     popf |-> popf, acq |-> acq]

CvValidDate == CHOOSE dc \in CvDateCases : dc.class = "valid"
CvValidTime == CHOOSE tc \in CvTimeCases : tc.class = "valid"

---------------------------------------------------------------------------
(* Decoding CV buffers and reading the decoded record *)

LiveCv == objs.meas.kind \in {"IscImport", "IssImport"}

\* the constructor has returned o, or raised
CvImported(d, decoder, o) ==
    /\ input = NoObj
    /\ input' = [kind |-> "input", d |-> d, decoder |-> decoder]
    /\ objs' = [objs EXCEPT !.meas = IF o.kind = "raised" THEN NoObj ELSE o]
    /\ ret' = IF o.kind = "raised" THEN [op |-> decoder, raised |-> o.err]
              ELSE [op |-> decoder]
    /\ handles' = handles \cup HandlesOf(decoder, "path")
    /\ UNCHANGED <<callerBuf, setup, rt, codec, job>>

IscImportOf(data) == IscImport(data, [shared |-> FALSE, bytes |-> data])

\* cv = IscImport(path)
IscImportCall(d) == CvImported(d, "IscImport", IscImportOf(IscBytes(d)))

GetAcqDecoded ==
    /\ LiveCv /\ objs.meas.kind = "IscImport"
    /\ ret' = [op |-> "getAcqDecoded", val |-> getAcqDecoded(objs.meas)]
    /\ UNCHANGED <<input, callerBuf, objs, setup, rt, codec, handles, job>>

GetAcqChannelLists ==
    /\ LiveCv /\ objs.meas.kind = "IscImport"
    /\ ret' = [op |-> "getAcqChannelLists",
               names |-> getAcqChannelNamesList(objs.meas),
               units |-> getAcqChannelUnitsList(objs.meas)]
    /\ UNCHANGED <<input, callerBuf, objs, setup, rt, codec, handles, job>>

GetAcqChannel(track) ==
    /\ LiveCv /\ objs.meas.kind = "IscImport"
    /\ ret' = [op |-> "getAcqChannel", track |-> track,
               val |-> getAcqChannel(objs.meas, track)]
    /\ UNCHANGED <<input, callerBuf, objs, setup, rt, codec, handles, job>>

CvArrays == {"voltage", "current", "time"}

CvArrayValue(o, which) ==
    CASE which = "voltage" -> getVoltageArray(o)
      [] which = "current" -> getCurrentArray(o)
      [] which = "time" -> getTimeArray(o)

GetCvArray(which) ==
    /\ LiveCv
    /\ ret' = [op |-> "getCvArray", which |-> which, val |-> CvArrayValue(objs.meas, which)]
    /\ UNCHANGED <<input, callerBuf, objs, setup, rt, codec, handles, job>>

\* files with every kind of ACQ block behind a good annotation
ImportCvWithAcq ==
    \E m \in 0..MaxN : \E acq \in CvAcqCases(m) :
        IscImportCall(CvDesc(m, CvValidDate, CvValidTime, CvGoodPopf, acq))

\* channel names asked for: "U", "U-1" and "-1"
TracksAsked == {<<85>>, <<85, 45, 49>>, <<45, 49>>}


---------------------------------------------------------------------------
(* iss_import.py: IssImport.__init__ *)

\* the ten doubles at the head of a polarization file
IssHeader ==
    <<"EdgePotential0", "EdgePotential1", "EdgePotential2", "EdgePotential3",
      "Resolution", "variable_a", "variable_b", "RelativeTolerance",
      "AbsoluteTolerance", "OhmicDrop">>

\* the try/except around the two strptime calls
IssTimes(times) ==
    IF times.ok THEN times
    ELSE [ok |-> TRUE, start |-> NoneValue, end |-> NoneValue]

IssConstructed(content, p, times, popf) ==
    [kind |-> "IssImport",
     _binaryFileContent |-> content,
     numberOfElements |-> p.n,
     current |-> p.current,
     time |-> p.time,
     Date |-> p.strings[IndexOf(CvStrings, "Date")],
     Time |-> p.strings[IndexOf(CvStrings, "Time")],
     POPF |-> p.strings[IndexOf(CvStrings, "POPF")],
     measurementStartDateTime |-> times.start,
     measurementEndDateTime |-> times.end,
     voltage |-> ScaleVoltage(p.intVoltageRead, popf.factor, popf.offset)]

IssWithPopf(content, p, times, popf) ==
    IF ~popf.ok THEN CvRaised(popf.err)
    ELSE IssConstructed(content, p, times, popf)

\* the split is before the try
IssWithSplit(content, p, parts) ==
    IF ~parts.ok THEN CvRaised(parts.err)
    ELSE IssWithPopf(content, p,
                     IssTimes(ParseTimes(p.strings[IndexOf(CvStrings, "Date")], parts)),
                     PopfDecode(IssPopfPattern, IssPopfFallbackPattern,
                                p.strings[IndexOf(CvStrings, "POPF")]))

IssWithStrings(content, n, intVoltageRead, current, time, strings) ==
    IF ~strings.ok THEN CvRaised(strings.err)
    ELSE IssWithSplit(content,
                      [n |-> n, intVoltageRead |-> intVoltageRead, current |-> current,
                       time |-> time, strings |-> strings.vals],
                      UnpackTimes(Split(strings.vals[IndexOf(CvStrings, "Time")], 45)))

IssWithTime(data, content, n, intVoltageRead, current, time) ==
    IF ~time.ok THEN CvRaised(time.err)
    ELSE IssWithStrings(content, n, intVoltageRead, current, time.val,
                        ReadStrings(data, time.pos, Len(CvStrings), <<>>))

IssWithCurrent(data, content, n, intVoltageRead, current) ==
    IF ~current.ok THEN CvRaised(current.err)
    ELSE IssWithTime(data, content, n, intVoltageRead, current.val,
                     readF8ArrayFromFile(data, current.pos, n))

IssWithVoltage(data, content, n, intVoltageRead) ==
    IF ~intVoltageRead.ok THEN CvRaised(intVoltageRead.err)
    ELSE IssWithCurrent(data, content, n, intVoltageRead.val,
                        readF8ArrayFromFile(data, intVoltageRead.pos, n))

IssWithCount(data, content, count) ==
    IssWithVoltage(data, content, count.val + 1,
                   readI2ArrayFromFile(data, count.pos, count.val + 1))

IssWithHeader(data, content, head) ==
    IF ~head.ok THEN CvRaised(head.err)
    ELSE IssWithCount(data, content, readI6FromFile(data, head.pos))

IssImport(data, content) == IssWithHeader(data, content, ReadF8Fields(data, 0, IssHeader))

IssBytes(d) ==
    Zeros(8 * Len(IssHeader))
    \o IntToBytesSigned(d.m - 1, 6).bytes
    \o I2ArrayBytes(CvVoltageInFile(d.m))
    \o F8ArrayBytes(CvCurrentInFile(d.m))
    \o F8ArrayBytes([i \in 1..d.m |-> 3 * i])
    \o Concat([i \in 1..Len(CvStrings) |-> RawString(CvStringsInFile(d)[i])])

IssImportOf(data) == IssImport(data, [shared |-> FALSE, bytes |-> data])

\* iss = IssImport(path)
IssImportCall(d) == CvImported(d, "IssImport", IssImportOf(IssBytes(d)))

GetMeasurementDateTimes ==
    /\ LiveCv
    /\ ret' = [op |-> "getMeasurementDateTimes",
               start |-> objs.meas.measurementStartDateTime,
               end |-> objs.meas.measurementEndDateTime]
    /\ UNCHANGED <<input, callerBuf, objs, setup, rt, codec, handles, job>>


\* files without ACQ block, with every date, time and annotation
ImportCvText ==
    \E dc \in CvDateCases, tc \in CvTimeCases, popf \in PopfCases :
        IscImportCall(CvDesc(2, dc, tc, popf, [kind |-> "none"]))

ImportIssText ==
    \E dc \in CvDateCases, tc \in CvTimeCases, popf \in PopfCases :
        IssImportCall(CvDesc(2, dc, tc, popf, [kind |-> "none"]))

NextCv ==
    \/ ImportCvWithAcq
    \/ ImportCvText
    \/ ImportIssText
    \/ GetAcqDecoded
    \/ GetAcqChannelLists
    \/ \E track \in TracksAsked : GetAcqChannel(track)
    \/ \E which \in CvArrays : GetCvArray(which)
    \/ GetMeasurementDateTimes

SpecCv == Init /\ [][NextCv]_vars

\* a CV file was handed to IscImport
CvGiven == input.kind = "input" /\ input.decoder = "IscImport"

\* C11: when the ACQ block of a CV file declares a row count other than
\* the sample count M, fewer rows or more, the block decodes
\* (getAcqDecoded() is True) and every channel getAcqChannel returns has
\* exactly M rows.
C11_AcqRowsReconciled ==
    (/\ CvGiven
     /\ input.d.acq.kind = "block" /\ input.d.acq.cut = 0
     /\ input.d.acq.rows >= 0 /\ input.d.acq.rows # input.d.m) =>
        /\ objs.meas.kind = "IscImport"
        /\ getAcqDecoded(objs.meas) = "True"
        /\ Len(objs.meas.acqData) = input.d.acq.channels
        /\ \A i \in 1..Len(objs.meas.acqData) :
              Len(objs.meas.acqData[i].data) = input.d.m
        /\ (ret.op = "getAcqChannel" /\ ret.val.ok) => Len(ret.val.val) = input.d.m


\* the fields before the ACQ block decode: the date and the time parse and
\* no float() of the annotation raises
CvPrimaryDecodes(d) ==
    /\ d.dateClass = "valid" /\ d.timeClass = "valid"
    /\ PopfDecode(IscPopfPattern, IscPopfFallbackPattern, d.popf).ok

\* bytes left behind the primary fields
CvRemaining(d) == Len(IscBytes(d)) - Len(IscPrimaryBytes(d))

\* something inside the try of the ACQ block raises
AcqRaises(d) == ~AcqBlock(IscBytes(d), Len(IscPrimaryBytes(d)), d.m).ok

NoAcqTables(o) ==
    o.acqChannelNames = <<>> /\ o.acqChannelUnits = <<>> /\ o.acqData = <<>>

\* C12: for a CV file whose primary fields decode, construction succeeds;
\* getAcqDecoded() is None when at most 400 bytes remain, True when more
\* remain and the ACQ block decodes, and False with empty name, unit and
\* data tables when something in the block raised; voltage, current and
\* time have M elements throughout.
C12_AcqFailureContained ==
    (CvGiven /\ CvPrimaryDecodes(input.d)) =>
        /\ objs.meas.kind = "IscImport"
        /\ Len(objs.meas.voltage) = input.d.m
        /\ Len(objs.meas.current) = input.d.m
        /\ Len(objs.meas.time) = input.d.m
        /\ IF CvRemaining(input.d) <= AcqMinRemaining
           THEN getAcqDecoded(objs.meas) = "None"
           ELSE IF AcqRaises(input.d)
           THEN getAcqDecoded(objs.meas) = "False" /\ NoAcqTables(objs.meas)
           ELSE getAcqDecoded(objs.meas) = "True"
        /\ ret.op = "getAcqDecoded" => ret.val = getAcqDecoded(objs.meas)

\* getAcqDecoded() has returned False for a file whose block is cut short
\* behind the names and units
C12_Witness ==
    /\ CvGiven /\ CvPrimaryDecodes(input.d)
    /\ input.d.acq.kind = "block" /\ input.d.acq.cut > 0 /\ input.d.acq.channels = 2
    /\ ret.op = "getAcqDecoded" /\ ret.val = "False"
    /\ NoAcqTables(objs.meas)


\* the patterns of the decoder a file was handed to
PopfPatternOf(decoder) == IF decoder = "IscImport" THEN IscPopfPattern ELSE IssPopfPattern
PopfFallbackOf(decoder) ==
    IF decoder = "IscImport" THEN IscPopfFallbackPattern ELSE IssPopfFallbackPattern

\* offset and factor as the rule gives them: the first two groups of the
\* first pattern, else the two groups of the fallback pattern, else 0 and 1
PopfByRule(first, second) ==
    IF first.ok
    THEN [offset |-> PyFloat(first.groups[1].text), factor |-> PyFloat(first.groups[2].text)]
    ELSE IF second.ok
    THEN [offset |-> PyFloat(second.groups[1].text), factor |-> PyFloat(second.groups[2].text)]
    ELSE [offset |-> [ok |-> TRUE, val |-> 0], factor |-> [ok |-> TRUE, val |-> 1]]

VoltageByRule(m, rule) ==
    [i \in 1..m |->
        CvVoltageInFile(m)[i] * (IF rule.factor.ok THEN rule.factor.val ELSE 1)
        + VoltageDivisor * (IF rule.offset.ok THEN rule.offset.val ELSE 0)]

\* C13: whatever the power-of-potential-factor annotation of a CV or
\* polarization file is, the decode does not abort because of it, and the
\* voltage array is intVoltageRead * (factor / 8000) + offset with offset
\* and factor the first two groups of the primary pattern if it matches,
\* else the two groups of the fallback pattern if that matches, else 0 and 1.
C13_PopfNeverAborts ==
    (/\ input.kind = "input" /\ input.decoder \in {"IscImport", "IssImport"}
     /\ input.d.dateClass = "valid" /\ input.d.timeClass = "valid") =>
        /\ objs.meas.kind = input.decoder
        /\ objs.meas.voltage =
              VoltageByRule(input.d.m,
                            PopfByRule(ReSearch(PopfPatternOf(input.decoder), input.d.popf),
                                       ReSearch(PopfFallbackOf(input.decoder), input.d.popf)))


\* the date and the "start-end" time string of a file cannot be parsed: the
\* time string has not exactly two parts, or strptime rejects one of them
CvTimesOf(d, parts) == IF parts.ok THEN ParseTimes(d.date, parts) ELSE parts
CvUnparsable(d) == ~CvTimesOf(d, UnpackTimes(Split(d.time, 45))).ok

\* C14: a CV or polarization file whose date or time string cannot be
\* parsed still decodes: both measurementStartDateTime and
\* measurementEndDateTime are None and the voltage and current arrays are
\* produced with one value per sample.
C14_BadTimesContained ==
    (/\ input.kind = "input" /\ input.decoder \in {"IscImport", "IssImport"}
     /\ input.d.popf = CvGoodPopf
     /\ CvUnparsable(input.d)) =>
        /\ objs.meas.kind = input.decoder
        /\ objs.meas.measurementStartDateTime = NoneValue
        /\ objs.meas.measurementEndDateTime = NoneValue
        /\ Len(objs.meas.voltage) = input.d.m
        /\ Len(objs.meas.current) = input.d.m



---------------------------------------------------------------------------
(* seqtxt_import.py: SeqTxtImport *)

\* re.search of a pattern without ^: the match at the first position in
\* p..last where there is one; the range is searched half by half
RECURSIVE ReSearchIn(_, _, _, _)
ReSearchElse(r, toks, s, p, last) == IF r.ok THEN r ELSE ReSearchIn(toks, s, p, last)

ReSearchIn(toks, s, p, last) ==
    IF p > last THEN ReFail
    ELSE IF p = last THEN ReMatch(s, p, toks, 1, ReNoGroups)
    ELSE ReSearchElse(ReSearchIn(toks, s, p, (p + last) \div 2),
                      toks, s, (p + last) \div 2 + 1, last)

ReSearchFrom(toks, s, p) == ReSearchIn(toks, s, p, Len(s))

\* re.findall of a pattern with one group: the group of every match, each
\* search starting where the match before it ended
RECURSIVE ReFindAll(_, _, _)
ReFound(toks, s, r) ==
    IF ~r.ok THEN <<>> ELSE <<r.groups[1].text>> \o ReFindAll(toks, s, r.end)

ReFindAll(toks, s, p) == ReFound(toks, s, ReSearchFrom(toks, s, p))

\* r"[\s]+(\S+)" with its group numbered g
singlePattern(g) == <<RePlus("space", 0), RePlus("nonspace", g)>>

\* singlePattern * len(self._dataTrackNames) + r"[\s]+"
RECURSIVE RepeatPattern(_)
RepeatPattern(n) ==
    IF n = 0 THEN <<>> ELSE RepeatPattern(n - 1) \o singlePattern(n)

completePattern(n) == RepeatPattern(n) \o <<RePlus("space", 0)>>

\* StringIO.readline / readlines: the lines of a text, each with the
\* newline that ends it
RECURSIVE ReadLinesFrom(_, _, _)
ReadLinesFrom(s, i, line) ==
    IF i > Len(s) THEN (IF line = <<>> THEN <<>> ELSE <<line>>)
    ELSE IF s[i] = 10 THEN <<Append(line, 10)>> \o ReadLinesFrom(s, i + 1, <<>>)
    ELSE ReadLinesFrom(s, i + 1, Append(line, s[i]))

ReadLines(s) == ReadLinesFrom(s, 1, <<>>)

\* the loop over the tracks for one line: float(match[i + 1]) appended to
\* the list of track i
RECURSIVE StoreRow(_, _, _, _)
StoreValue(names, match, i, tracks, v) ==
    IF ~v.ok THEN [ok |-> FALSE, err |-> v.err]
    ELSE StoreRow(names, match, i + 1,
                  [tracks EXCEPT ![names[i]] = Append(@, v.val)])

StoreRow(names, match, i, tracks) ==
    IF i > Len(names) THEN [ok |-> TRUE, tracks |-> tracks]
    ELSE IF ~match.ok THEN [ok |-> FALSE, err |-> "TypeError"]
    ELSE StoreValue(names, match, i, tracks, PyFloat(match.groups[i].text))

\* the loop over the lines after the header
RECURSIVE StoreRows(_, _, _, _)
StoreNext(names, lines, n, r) ==
    IF ~r.ok THEN r ELSE StoreRows(names, lines, n + 1, r.tracks)

StoreRows(names, lines, n, tracks) ==
    IF n > Len(lines) THEN [ok |-> TRUE, tracks |-> tracks]
    ELSE StoreNext(names, lines, n,
                   StoreRow(names,
                            ReSearchFrom(completePattern(Len(names)), lines[n], 0),
                            1, tracks))

SeqConstructed(content, names, r) ==
    IF ~r.ok THEN [kind |-> "raised", err |-> r.err]
    ELSE [kind |-> "SeqTxtImport",
          _binaryFileContent |-> content,
          _dataTrackNames |-> names,
          _data |-> r.tracks]

SeqWithNames(content, lines, names) ==
    SeqConstructed(content, names,
                   StoreRows(names, lines, 2,
                             [key \in {names[i] : i \in 1..Len(names)} |-> <<>>]))

SeqWithLines(content, lines) ==
    SeqWithNames(content, lines,
                 ReFindAll(singlePattern(1), IF lines = <<>> THEN <<>> ELSE lines[1], 0))

\* the files of the model are ASCII, which decode("utf-8") leaves as it is
SeqTxtImport(data, content) == SeqWithLines(content, ReadLines(data))

SeqGetTrackTypesList(o) == o._dataTrackNames

SeqGetTrack(o, track) ==
    IF track \in DOMAIN o._data THEN [ok |-> TRUE, val |-> o._data[track]]
    ELSE [ok |-> FALSE, err |-> "KeyError"]

\* header lines: " a b", " a", without white space in front "a b", and
\* with one name twice " a a"
SeqHeaders ==
    {<<32, 97, 32, 98, 10>>, <<32, 97, 10>>, <<97, 32, 98, 10>>,
     <<32, 97, 32, 97, 10>>}

\* data rows: " 1 2", " 1", " 1 2 3", a blank line, " 1 2" without the
\* newline, "1 2" and " 1 x"
SeqRowCases ==
    {<<32, 49, 32, 50, 10>>, <<32, 49, 10>>, <<32, 49, 32, 50, 32, 51, 10>>,
     <<10>>, <<32, 49, 32, 50>>, <<49, 32, 50, 10>>, <<32, 49, 32, 120, 10>>}

MaxRows == 2

\* the rows of a file end with a newline but for the last
SeqRowLists ==
    {rows \in UNION {[1..n -> SeqRowCases] : n \in 0..MaxRows} :
        \A i \in 1..(Len(rows) - 1) : rows[i][Len(rows[i])] = 10}

SeqBytes(d) == d.header \o Concat(d.rows)

LiveSeq == objs.meas.kind = "SeqTxtImport"

SeqTxtImportOf(data) == SeqTxtImport(data, [shared |-> FALSE, bytes |-> data])

\* imp = SeqTxtImport(path)
SeqTxtImportCall ==
    \E header \in SeqHeaders : \E rows \in SeqRowLists :
        CvImported([header |-> header, rows |-> rows], "SeqTxtImport",
                   SeqTxtImportOf(SeqBytes([header |-> header, rows |-> rows])))

SeqTrackTypesListCall ==
    /\ LiveSeq
    /\ ret' = [op |-> "getTrackTypesList", val |-> SeqGetTrackTypesList(objs.meas)]
    /\ UNCHANGED <<input, callerBuf, objs, setup, rt, codec, handles, job>>

\* tracks asked for: "a", "b" and "c"
SeqTracksAsked == {<<97>>, <<98>>, <<99>>}

SeqTrackCall(track) ==
    /\ LiveSeq
    /\ ret' = [op |-> "getTrack", track |-> track, val |-> SeqGetTrack(objs.meas, track)]
    /\ UNCHANGED <<input, callerBuf, objs, setup, rt, codec, handles, job>>

NextSeq ==
    \/ SeqTxtImportCall
    \/ SeqTrackTypesListCall
    \/ \E track \in SeqTracksAsked : SeqTrackCall(track)

SpecSeq == Init /\ [][NextSeq]_vars

\* str.split(): the columns of a row, the runs of characters that are not
\* white space
RECURSIVE ColumnsFrom(_, _, _)
ColumnsFrom(s, i, word) ==
    IF i > Len(s) THEN (IF word = <<>> THEN <<>> ELSE <<word>>)
    ELSE IF IsSpace(s[i])
    THEN (IF word = <<>> THEN <<>> ELSE <<word>>) \o ColumnsFrom(s, i + 1, <<>>)
    ELSE ColumnsFrom(s, i + 1, Append(word, s[i]))

Columns(s) == ColumnsFrom(s, 1, <<>>)

SeqGiven == input.kind = "input" /\ input.decoder = "SeqTxtImport"

\* the track names the decoder takes from the header of the file
SeqTrackNames(d) == ReFindAll(singlePattern(1), d.header, 0)

SeqMismatch(d) ==
    \E i \in 1..Len(d.rows) : Len(Columns(d.rows[i])) # Len(SeqTrackNames(d))

\* C15: when a data row of a sequence-text file has a number of columns
\* other than the number of track names of the header (fewer, more, or
\* none on a blank line), the decoder fails: no record is built and no
\* value of the row is stored.
C15_MalformedRowRejected ==
    (SeqGiven /\ SeqMismatch(input.d)) =>
        /\ objs.meas = NoObj
        /\ "raised" \in DOMAIN ret




---------------------------------------------------------------------------
(* impedance_model_import.py: the XML tree of a circuit model             *)
(* An element of xml.etree.ElementTree is a record of its tag, its        *)
(* attributes (keys in document order, attrib from key to value) and its   *)
(* child elements.  Tags, keys and values are strings; Chars gives the     *)
(* character codes of the strings that occur in the documents.             *)

Chars ==
       ("zahner-impedance-model" :> <<122, 97, 104, 110, 101, 114, 45, 105, 109, 112, 101, 100, 97, 110, 99, 101, 45, 109, 111, 100, 101, 108>>)
    @@ ("parsed-tree" :> <<112, 97, 114, 115, 101, 100, 45, 116, 114, 101, 101>>)
    @@ ("serial-connect" :> <<115, 101, 114, 105, 97, 108, 45, 99, 111, 110, 110, 101, 99, 116>>)
    @@ ("schematics-graph" :> <<115, 99, 104, 101, 109, 97, 116, 105, 99, 115, 45, 103, 114, 97, 112, 104>>)
    @@ ("node" :> <<110, 111, 100, 101>>)
    @@ ("resistor" :> <<114, 101, 115, 105, 115, 116, 111, 114>>)
    @@ ("capacitor" :> <<99, 97, 112, 97, 99, 105, 116, 111, 114>>)
    @@ ("user-element" :> <<117, 115, 101, 114, 45, 101, 108, 101, 109, 101, 110, 116>>)
    @@ ("parameter" :> <<112, 97, 114, 97, 109, 101, 116, 101, 114>>)
    @@ ("user-parameter" :> <<117, 115, 101, 114, 45, 112, 97, 114, 97, 109, 101, 116, 101, 114>>)
    @@ ("name" :> <<110, 97, 109, 101>>)
    @@ ("unit" :> <<117, 110, 105, 116>>)
    @@ ("index" :> <<105, 110, 100, 101, 120>>)
    @@ ("value" :> <<118, 97, 108, 117, 101>>)
    @@ ("fitterFixed" :> <<102, 105, 116, 116, 101, 114, 70, 105, 120, 101, 100>>)
    @@ ("type" :> <<116, 121, 112, 101>>)
    @@ ("R0" :> <<82, 48>>)
    @@ ("R1" :> <<82, 49>>)
    @@ ("C0" :> <<67, 48>>)
    @@ ("U0" :> <<85, 48>>)
    @@ ("Rs" :> <<82, 115>>)
    @@ ("kOhm" :> <<107, 79, 104, 109>>)
    @@ ("a" :> <<97>>)
    @@ ("V" :> <<86>>)
    @@ ("0" :> <<48>>)
    @@ ("1" :> <<49>>)
    @@ ("100" :> <<49, 48, 48>>)
    @@ ("47" :> <<52, 55>>)
    @@ ("5" :> <<53>>)

XmlNode(tag, keys, attrib, children) ==
    [tag |-> tag, keys |-> keys, attrib |-> attrib, children |-> children]

\* Element.find(tag): the first child with the tag, or None
XmlFind(node, tag) ==
    IF \E i \in 1..Len(node.children) : node.children[i].tag = tag
    THEN node.children[CHOOSE i \in 1..Len(node.children) :
                          /\ node.children[i].tag = tag
                          /\ \A j \in 1..(i - 1) : node.children[j].tag # tag]
    ELSE NoneValue

\* bool(element): an element is true when it has children; None is false
XmlTruth(found) == found # NoneValue /\ found.children # <<>>

\* element.attrib[key]
XmlAttrib(node, key) ==
    IF key \in DOMAIN node.attrib THEN [ok |-> TRUE, val |-> node.attrib[key]]
    ELSE [ok |-> FALSE, err |-> "KeyError"]

\* the elements below node in document order
RECURSIVE XmlDescendants(_)
RECURSIVE XmlDescendantsOf(_, _)
XmlDescendantsOf(children, i) ==
    IF i > Len(children) THEN <<>>
    ELSE <<children[i]>> \o XmlDescendants(children[i]) \o XmlDescendantsOf(children, i + 1)

XmlDescendants(node) == XmlDescendantsOf(node.children, 1)

\* element.findall(".//" + tag) for a tag that is a name
XmlFindAll(node, tag) == SelectSeq(XmlDescendants(node), LAMBDA n : n.tag = tag)

\* the white space ElementTree keeps in text and tail: none at all, a
\* newline, or a newline and two blanks for every level
Layouts == {"compact", "lines", "indented"}

RECURSIVE Blanks(_)
Blanks(n) == IF n = 0 THEN <<>> ELSE <<32>> \o Blanks(n - 1)

XmlSpace(layout, depth) ==
    CASE layout = "compact" -> <<>>
      [] layout = "lines" -> <<10>>
      [] layout = "indented" -> <<10>> \o Blanks(2 * depth)

RECURSIVE XmlAttributes(_, _)
XmlAttributes(node, i) ==
    IF i > Len(node.keys) THEN <<>>
    ELSE <<32>> \o Chars[node.keys[i]] \o <<61, 34>> \o Chars[node.attrib[node.keys[i]]]
         \o <<34>> \o XmlAttributes(node, i + 1)

\* et.tostring(element): the element, its children each followed by its
\* tail, an element without children as <tag />
RECURSIVE XmlToString(_, _, _)
RECURSIVE XmlChildrenToString(_, _, _, _)
XmlChildrenToString(children, i, layout, depth) ==
    IF i > Len(children) THEN <<>>
    ELSE XmlToString(children[i], layout, depth)
         \o XmlSpace(layout, IF i = Len(children) THEN depth - 1 ELSE depth)
         \o XmlChildrenToString(children, i + 1, layout, depth)

XmlToString(node, layout, depth) ==
    <<60>> \o Chars[node.tag] \o XmlAttributes(node, 1)
    \o IF node.children = <<>> THEN <<32, 47, 62>>
       ELSE <<62>> \o XmlSpace(layout, depth + 1)
            \o XmlChildrenToString(node.children, 1, layout, depth + 1)
            \o <<60, 47>> \o Chars[node.tag] \o <<62>>

\* str(b): the text b'...' with a newline written as \n, and a backslash
\* or a quote with a backslash in front
ByteRepr(c) ==
    CASE c = 10 -> <<92, 110>>
      [] c \in {39, 92} -> <<92, c>>
      [] OTHER -> <<c>>

\* the bytes from i to j, one half after the other
RECURSIVE BytesReprOf(_, _, _)
BytesReprOf(b, i, j) ==
    IF i > j THEN <<>>
    ELSE IF i = j THEN ByteRepr(b[i])
    ELSE BytesReprOf(b, i, (i + j) \div 2) \o BytesReprOf(b, (i + j) \div 2 + 1, j)

BytesRepr(b) == <<98, 39>> \o BytesReprOf(b, 1, Len(b)) \o <<39>>



---------------------------------------------------------------------------
(* impedance_model_import.py: IsfxModelElementParameter *)

CatalogEntry(name, unit) == [name |-> name, unit |-> unit]

Diffusion == ("0" :> CatalogEntry("W", "Ωs^(-½)")) @@ ("1" :> CatalogEntry("k", "1/s"))

elementParameterIndex ==
       ("resistor" :> ("0" :> CatalogEntry("R", "Ω")))
    @@ ("inductor" :> ("0" :> CatalogEntry("L", "H")))
    @@ ("capacitor" :> ("0" :> CatalogEntry("C", "F")))
    @@ ("spherical-diffusion" :> Diffusion)
    @@ ("young-goehr-impedance" :>
            ("0" :> CatalogEntry("C", "F")) @@ ("1" :> CatalogEntry("p", ""))
            @@ ("2" :> CatalogEntry("T", "s")))
    @@ ("warburg-impedance" :> ("0" :> CatalogEntry("W", "Ωs^(-½)")))
    @@ ("nernst-diffusion" :> Diffusion)
    @@ ("finite-diffusion" :> Diffusion)
    @@ ("homogenous-reaction-impedance" :> Diffusion)
    @@ ("constant-phase-element" :>
            ("0" :> CatalogEntry("C_eq", "F")) @@ ("1" :> CatalogEntry("α", ""))
            @@ ("2" :> CatalogEntry("f_norm", "Hz")))

IsfxModelElementParameter(elementXML, xmlParentTag) ==
    [xml |-> elementXML, xmlParentTag |-> xmlParentTag]

\* elementParameterIndex[self.xmlParentTag][self.xml.attrib["index"]][field]
CatalogAt(tag, index, field) ==
    IF ~index.ok THEN index
    ELSE IF tag \notin DOMAIN elementParameterIndex
            \/ index.val \notin DOMAIN elementParameterIndex[tag]
    THEN [ok |-> FALSE, err |-> "KeyError"]
    ELSE [ok |-> TRUE, val |-> elementParameterIndex[tag][index.val][field]]

\* getName and getUnit: self.xml.find(field) is a child element of that
\* tag, and it is true when it has children of its own
ParameterField(p, field) ==
    IF XmlTruth(XmlFind(p.xml, field)) THEN XmlAttrib(p.xml, field)
    ELSE CatalogAt(p.xmlParentTag, XmlAttrib(p.xml, "index"), field)

ParameterGetName(p) == ParameterField(p, "name")
ParameterGetUnit(p) == ParameterField(p, "unit")

FloatOf(text) ==
    IF ~text.ok THEN text
    ELSE IF text.val \notin DOMAIN Chars THEN [ok |-> FALSE, err |-> "ValueError"]
    ELSE PyFloat(Chars[text.val])

ParameterGetValue(p) == FloatOf(XmlAttrib(p.xml, "value"))

FixedOf(fixedState) ==
    IF ~fixedState.ok THEN fixedState ELSE [ok |-> TRUE, val |-> fixedState.val = "0"]

isFixed(p) == FixedOf(XmlAttrib(p.xml, "fitterFixed"))

\* the reply of the except branch: every attribute as "key: value "
AttributesReply(p) ==
    [ok |-> TRUE,
     val |-> [kind |-> "attributes",
              pairs |-> [i \in 1..Len(p.xml.keys) |->
                            <<p.xml.keys[i], p.xml.attrib[p.xml.keys[i]]>>]]]

\* the f-string of the try branch, or the reply of the bare except
FormattedReply(p, name, value, unit, fixed) ==
    IF name.ok /\ value.ok /\ unit.ok /\ fixed.ok
    THEN [ok |-> TRUE,
          val |-> [kind |-> "formatted", name |-> name.val, value |-> value.val,
                   unit |-> unit.val, fixed |-> fixed.val]]
    ELSE AttributesReply(p)

_parameterToString(p) ==
    FormattedReply(p, ParameterGetName(p), ParameterGetValue(p), ParameterGetUnit(p),
                   isFixed(p))


---------------------------------------------------------------------------
(* impedance_model_import.py: IsfxModelElement *)

ParametersOf(xmlParameters, tag) ==
    [i \in 1..Len(xmlParameters) |-> IsfxModelElementParameter(xmlParameters[i], tag)]

\* .//parameter, and .//user-parameter when there is none
IsfxModelElement(xmlElement) ==
    [xml |-> xmlElement,
     parameters |->
        ParametersOf(IF XmlFindAll(xmlElement, "parameter") = <<>>
                     THEN XmlFindAll(xmlElement, "user-parameter")
                     ELSE XmlFindAll(xmlElement, "parameter"),
                     xmlElement.tag)]

getParameters(e) == e.parameters
ElementGetName(e) == XmlAttrib(e.xml, "name")
getType(e) == e.xml.tag

\* the loop of getParameterByName from parameter i on
RECURSIVE ParameterFrom(_, _, _)
ParameterCompared(e, name, i, found) ==
    IF ~found.ok THEN found
    ELSE IF found.val = name THEN [ok |-> TRUE, val |-> e.parameters[i]]
    ELSE ParameterFrom(e, name, i + 1)

ParameterFrom(e, name, i) ==
    IF i > Len(e.parameters) THEN [ok |-> TRUE, val |-> NoneValue]
    ELSE ParameterCompared(e, name, i, ParameterGetName(e.parameters[i]))

getParameterByName(e, name) == ParameterFrom(e, name, 1)

\* str(element): the head line and one line per parameter
RECURSIVE ParameterLines(_, _)
ParameterLinesJoin(first, rest) ==
    IF ~first.ok THEN first
    ELSE IF ~rest.ok THEN rest
    ELSE [ok |-> TRUE, val |-> <<first.val>> \o rest.val]

ParameterLines(e, i) ==
    IF i > Len(e.parameters) THEN [ok |-> TRUE, val |-> <<>>]
    ELSE ParameterLinesJoin(_parameterToString(e.parameters[i]),
                            ParameterLines(e, i + 1))

ElementText(e, name, lines) ==
    IF ~name.ok THEN name
    ELSE IF ~lines.ok THEN lines
    ELSE [ok |-> TRUE,
          val |-> <<[type |-> getType(e), name |-> name.val, lines |-> lines.val]>>]

ElementToString(e) == ElementText(e, ElementGetName(e), ParameterLines(e, 1))



---------------------------------------------------------------------------
(* impedance_model_import.py: IsfxModelImport *)

\* r"<([\S]+)\s*name=\"[\S ]+?\"\s*>"
IsfxPattern ==
    <<ReLit(60), RePlus("nonspace", 1), ReSpaces,
      ReLit(110), ReLit(97), ReLit(109), ReLit(101), ReLit(61), ReLit(34),
      [kind |-> "char", class |-> "nonspace or blank", c |-> 0],
      ReStar("nonspace or blank", 0, FALSE, 0),
      ReLit(34), ReSpaces, ReLit(62)>>

\* the orders list(set(matched)) can have
SetOrders(matched) ==
    {order \in [1..Cardinality({matched[i] : i \in 1..Len(matched)})
                    -> {matched[i] : i \in 1..Len(matched)}] :
        \A i, j \in DOMAIN order : order[i] = order[j] => i = j}

\* self._completeXmlTree.findall(".//" + element): a path that goes on
\* with "/" is no descendant path, and only a text that is a tag finds
\* elements
PathFindAll(tree, element) ==
    IF element[1] = 47 THEN [ok |-> FALSE, err |-> "SyntaxError"]
    ELSE [ok |-> TRUE,
          val |-> SelectSeq(XmlDescendants(tree), LAMBDA n : Chars[n.tag] = element)]

ElementsOf(foundElements) ==
    [i \in 1..Len(foundElements) |-> IsfxModelElement(foundElements[i])]

\* the loop over existingElementTypesInModel from type i on
RECURSIVE CollectElements(_, _, _, _)
ExtendElements(tree, types, i, elements, foundElements) ==
    IF ~foundElements.ok THEN foundElements
    ELSE CollectElements(tree, types, i + 1, elements \o ElementsOf(foundElements.val))

CollectElements(tree, types, i, elements) ==
    IF i > Len(types) THEN [ok |-> TRUE, val |-> elements]
    ELSE ExtendElements(tree, types, i, elements, PathFindAll(tree, types[i]))

IsfxConstructed(tree, layout, types, elements) ==
    IF ~elements.ok THEN [kind |-> "raised", err |-> elements.err]
    ELSE [kind |-> "IsfxModelImport",
          _completeXmlTree |-> tree,
          layout |-> layout,
          existingElementTypesInModel |-> types,
          _elements |-> elements.val]

\* what re.findall gets: str(et.tostring(self.parsed_tree_elements)), the
\* subtree with the tail behind it
ParsedTreeText(tree, layout) ==
    BytesRepr(XmlToString(XmlFind(tree, "parsed-tree"), layout, 1) \o XmlSpace(layout, 1))

IsfxMatched(tree, layout) == ReFindAll(IsfxPattern, ParsedTreeText(tree, layout), 0)

\* the model of the document that parses to tree and keeps the white
\* space of layout; types is existingElementTypesInModel
IsfxModelImport(tree, layout, types) ==
    IsfxConstructed(tree, layout, types, CollectElements(tree, types, 1, <<>>))

getCircuitElements(m) == m._elements

\* the loop of getCircuitElementByName from element i on
RECURSIVE ElementFrom(_, _, _)
ElementCompared(m, name, i, found) ==
    IF ~found.ok THEN found
    ELSE IF found.val = name THEN [ok |-> TRUE, val |-> m._elements[i]]
    ELSE ElementFrom(m, name, i + 1)

ElementFrom(m, name, i) ==
    IF i > Len(m._elements) THEN [ok |-> TRUE, val |-> NoneValue]
    ELSE ElementCompared(m, name, i, ElementGetName(m._elements[i]))

getCircuitElementByName(m, name) == ElementFrom(m, name, 1)

\* str(model): the strings of the elements one after the other
RECURSIVE ModelLines(_, _)
ModelLinesJoin(first, rest) ==
    IF ~first.ok THEN first
    ELSE IF ~rest.ok THEN rest
    ELSE [ok |-> TRUE, val |-> first.val \o rest.val]

ModelLines(m, i) ==
    IF i > Len(m._elements) THEN [ok |-> TRUE, val |-> <<>>]
    ELSE ModelLinesJoin(ElementToString(m._elements[i]), ModelLines(m, i + 1))

ModelToString(m) == ModelLines(m, 1)

\* model[element][parameter].getValue()
ValueOfParameter(parameter) ==
    IF ~parameter.ok THEN parameter
    ELSE IF parameter.val = NoneValue THEN [ok |-> FALSE, err |-> "AttributeError"]
    ELSE ParameterGetValue(parameter.val)

ValueInElement(element, parameter) ==
    IF ~element.ok THEN element
    ELSE IF element.val = NoneValue THEN [ok |-> FALSE, err |-> "TypeError"]
    ELSE ValueOfParameter(getParameterByName(element.val, parameter))

ValueAt(m, element, parameter) ==
    ValueInElement(getCircuitElementByName(m, element), parameter)



---------------------------------------------------------------------------
(* Circuit-model documents and the calls on a decoded model *)

\* <parameter index=.. value=.. fitterFixed=.. />
PlainParameter(index, value, fixed) ==
    XmlNode("parameter", <<"index", "value", "fitterFixed">>,
            ("index" :> index) @@ ("value" :> value) @@ ("fitterFixed" :> fixed), <<>>)

\* a parameter that carries its own name and unit as attributes
NamedParameter(tag, keys, name, unit, value) ==
    XmlNode(tag, keys \o <<"name", "unit", "value", "fitterFixed">>,
            [k \in {keys[i] : i \in 1..Len(keys)} |-> "0"]
            @@ ("name" :> name) @@ ("unit" :> unit) @@ ("value" :> value)
            @@ ("fitterFixed" :> "1"),
            <<>>)

\* the same with a child element <name> that has a child of its own
ParameterWithNameChild ==
    [NamedParameter("parameter", <<"index">>, "Rs", "kOhm", "5") EXCEPT
        !.children = <<XmlNode("name", <<>>, <<>>, <<XmlNode("value", <<>>, <<>>, <<>>)>>)>>]

NamedElement(tag, name, parameter) ==
    XmlNode(tag, <<"name">>, ("name" :> name), <<parameter>>)

\* the circuit elements of the documents, by the case they stand for
ElementCases ==
    [plainR0 |-> NamedElement("resistor", "R0", PlainParameter("0", "100", "1")),
     unknownR0 |-> NamedElement("resistor", "R0", PlainParameter("1", "100", "1")),
     plainR1 |-> NamedElement("resistor", "R1", PlainParameter("0", "47", "0")),
     namedR1 |-> NamedElement("resistor", "R1",
                              NamedParameter("parameter", <<"index">>, "Rs", "kOhm", "47")),
     secondR1 |-> XmlNode("resistor", <<"type", "name">>, ("type" :> "1") @@ ("name" :> "R1"),
                          <<PlainParameter("0", "47", "0")>>),
     plainC0 |-> NamedElement("capacitor", "C0", PlainParameter("0", "5", "1")),
     childC0 |-> NamedElement("capacitor", "C0", ParameterWithNameChild),
     userU0 |-> NamedElement("user-element", "U0",
                             NamedParameter("user-parameter", <<>>, "a", "V", "5"))]

ElementNames == {"R0", "R1", "C0", "U0"}

MaxElements == 2

\* the order in which the elements stand in a document
CaseOrder ==
    <<"plainR0", "unknownR0", "plainR1", "namedR1", "secondR1", "plainC0", "childC0",
      "userU0">>

\* the lists of elements of a document: names pairwise distinct
ElementLists ==
    {[i \in DOMAIN at |-> CaseOrder[at[i]]] :
        at \in {a \in UNION {[1..n -> DOMAIN CaseOrder] : n \in 1..MaxElements} :
                    \A i, j \in DOMAIN a :
                        /\ i < j => a[i] < a[j]
                        /\ ElementCases[CaseOrder[a[i]]].attrib["name"]
                                = ElementCases[CaseOrder[a[j]]].attrib["name"] => i = j}}

\* what stands beside the parsed tree: the schematics graph with a node
\* for R0, or a subtree with one more resistor
OutsideCases == {"node", "resistor"}

Outside(case) ==
    CASE case = "node" ->
            <<XmlNode("schematics-graph", <<>>, <<>>,
                      <<XmlNode("node", <<"type", "name">>,
                                ("type" :> "1") @@ ("name" :> "R0"),
                                <<PlainParameter("0", "100", "1")>>)>>)>>
      [] case = "resistor" ->
            <<XmlNode("schematics-graph", <<>>, <<>>,
                      <<NamedElement("resistor", "R0", PlainParameter("0", "5", "1"))>>)>>

ElementsInTree(d) == [i \in 1..Len(d.cases) |-> ElementCases[d.cases[i]]]

IsfxTree(d) ==
    XmlNode("zahner-impedance-model", <<>>, <<>>,
            <<XmlNode("parsed-tree", <<>>, <<>>,
                      <<XmlNode("serial-connect", <<>>, <<>>, ElementsInTree(d))>>)>>
            \o Outside(d.outside))

IsfxDesc(layout, cases, outside) == [layout |-> layout, cases |-> cases, outside |-> outside]

LiveModel == objs.meas.kind = "IsfxModelImport"

\* model = IsfxModelImport(xmlString=...)
IsfxModelImportCall ==
    \E layout \in Layouts, cases \in ElementLists, outside \in OutsideCases :
        \E types \in SetOrders(IsfxMatched(IsfxTree(IsfxDesc(layout, cases, outside)), layout)) :
            CvImported(IsfxDesc(layout, cases, outside), "IsfxModelImport",
                       IsfxModelImport(IsfxTree(IsfxDesc(layout, cases, outside)),
                                       layout, types))

Returned(op, args, r) ==
    IF r.ok THEN [op |-> op, args |-> args, val |-> r.val]
    ELSE [op |-> op, args |-> args, raised |-> r.err]

ModelCall(op, args, r) ==
    /\ LiveModel
    /\ ret' = Returned(op, args, r)
    /\ UNCHANGED <<input, callerBuf, objs, setup, rt, codec, handles, job>>

GetCircuitElements ==
    ModelCall("getCircuitElements", <<>>, [ok |-> TRUE, val |-> getCircuitElements(objs.meas)])

GetCircuitElementByName ==
    \E name \in ElementNames :
        ModelCall("getCircuitElementByName", <<name>>, getCircuitElementByName(objs.meas, name))

\* model[element][parameter].getValue()
ParameterNamesAsked == {"R", "C", "Rs", "a"}

GetValue ==
    \E element \in ElementNames, parameter \in ParameterNamesAsked :
        ModelCall("getValue", <<element, parameter>>, ValueAt(objs.meas, element, parameter))

\* parameter j of element i of the model
ParameterAt(m, i, j) == m._elements[i].parameters[j]

ParameterPlaces(m) ==
    {<<i, j>> \in (1..Len(m._elements)) \X (1..1) : j <= Len(m._elements[i].parameters)}

GetName ==
    /\ LiveModel
    /\ \E at \in ParameterPlaces(objs.meas) :
          ModelCall("getName", at, ParameterGetName(ParameterAt(objs.meas, at[1], at[2])))

GetUnit ==
    /\ LiveModel
    /\ \E at \in ParameterPlaces(objs.meas) :
          ModelCall("getUnit", at, ParameterGetUnit(ParameterAt(objs.meas, at[1], at[2])))

GetParameterByName ==
    /\ LiveModel
    /\ \E i \in 1..Len(objs.meas._elements), name \in ParameterNamesAsked :
          ModelCall("getParameterByName", <<i, name>>,
                    getParameterByName(objs.meas._elements[i], name))

ParameterStr ==
    /\ LiveModel
    /\ \E at \in ParameterPlaces(objs.meas) :
          ModelCall("str(parameter)", at,
                    _parameterToString(ParameterAt(objs.meas, at[1], at[2])))

ElementStr ==
    /\ LiveModel
    /\ \E i \in 1..Len(objs.meas._elements) :
          ModelCall("str(element)", <<i>>, ElementToString(objs.meas._elements[i]))

ModelStr == ModelCall("str(model)", <<>>, ModelToString(objs.meas))

NextModel ==
    \/ IsfxModelImportCall
    \/ GetCircuitElements
    \/ GetCircuitElementByName
    \/ GetValue
    \/ GetName
    \/ GetUnit
    \/ GetParameterByName
    \/ ParameterStr
    \/ ElementStr
    \/ ModelStr

SpecModel == Init /\ [][NextModel]_vars


ModelGiven == input.kind = "input" /\ input.decoder = "IsfxModelImport"

\* the name or unit of a parameter by the rule: its own attribute when it
\* has one, else the catalog entry of its parent tag and index
ExplicitOrCatalog(p, field) ==
    IF field \in DOMAIN p.xml.attrib THEN [ok |-> TRUE, val |-> p.xml.attrib[field]]
    ELSE CatalogAt(p.xmlParentTag, XmlAttrib(p.xml, "index"), field)

FieldOf(op) == IF op = "getName" THEN "name" ELSE "unit"

\* C16: getName() and getUnit() of a parameter node return the node's own
\* name / unit attribute when it has that attribute, and the catalog entry
\* for its parent tag and index only when it has not.
C16_ExplicitNameFirst ==
    (LiveModel /\ ret.op \in {"getName", "getUnit"}
     /\ ExplicitOrCatalog(ParameterAt(objs.meas, ret.args[1], ret.args[2]),
                          FieldOf(ret.op)).ok) =>
        /\ "val" \in DOMAIN ret
        /\ ret.val = ExplicitOrCatalog(ParameterAt(objs.meas, ret.args[1], ret.args[2]),
                                       FieldOf(ret.op)).val

\* neither an attribute of its own nor a catalog entry gives the field
Unresolvable(p, field) == ~ExplicitOrCatalog(p, field).ok

UnknownParameter(p) == Unresolvable(p, "name") \/ Unresolvable(p, "unit")

HasUnknownParameter(e) ==
    \E j \in 1..Len(e.parameters) : UnknownParameter(e.parameters[j])

\* the search for name in element e has to resolve the name of a parameter
\* that cannot be resolved: no parameter before it has the name
SearchMeetsUnknown(e, name) ==
    \E j \in 1..Len(e.parameters) :
        /\ Unresolvable(e.parameters[j], "name")
        /\ \A i \in 1..(j - 1) :
              ExplicitOrCatalog(e.parameters[i], "name") # [ok |-> TRUE, val |-> name]

\* C17: for a parameter that is not in the catalog and has no name / unit
\* attribute of its own, getName, getUnit, getParameterByName of its
\* element and the string conversion of the parameter, of its element and
\* of the model all raise; none returns a string in its place.
C17_UnknownParameterSurfaces ==
    LiveModel =>
        /\ (ret.op \in {"getName", "getUnit"}
            /\ Unresolvable(ParameterAt(objs.meas, ret.args[1], ret.args[2]), FieldOf(ret.op)))
              => "raised" \in DOMAIN ret
        /\ (ret.op = "getParameterByName"
            /\ SearchMeetsUnknown(objs.meas._elements[ret.args[1]], ret.args[2]))
              => "raised" \in DOMAIN ret
        /\ (ret.op = "str(parameter)"
            /\ UnknownParameter(ParameterAt(objs.meas, ret.args[1], ret.args[2])))
              => "raised" \in DOMAIN ret
        /\ (ret.op = "str(element)" /\ HasUnknownParameter(objs.meas._elements[ret.args[1]]))
              => "raised" \in DOMAIN ret
        /\ (ret.op = "str(model)"
            /\ \E i \in 1..Len(objs.meas._elements) : HasUnknownParameter(objs.meas._elements[i]))
              => "raised" \in DOMAIN ret

\* the circuit elements of the parsed tree of a document
ElementsGiven(d) == [i \in 1..Len(d.cases) |-> IsfxModelElement(ElementCases[d.cases[i]])]

Occurrences(seq, x) == Cardinality({j \in 1..Len(seq) : seq[j] = x})

\* C18: a document whose parsed tree holds k named circuit elements with
\* pairwise distinct names decodes to a model with exactly those k
\* elements, each once; model[name] is the element of that name, and
\* model["R0"]["R"].getValue() is the float of the value attribute.
C18_ElementsByName ==
    ModelGiven =>
        /\ LiveModel
        /\ Len(getCircuitElements(objs.meas)) = Len(input.d.cases)
        /\ \A i \in 1..Len(input.d.cases) :
              /\ Occurrences(getCircuitElements(objs.meas), ElementsGiven(input.d)[i]) = 1
              /\ getCircuitElementByName(objs.meas, ElementsGiven(input.d)[i].xml.attrib["name"])
                    = [ok |-> TRUE, val |-> ElementsGiven(input.d)[i]]
        /\ \A i \in 1..Len(input.d.cases) :
              input.d.cases[i] = "plainR0" =>
                  ValueAt(objs.meas, "R0", "R")
                    = PyFloat(Chars[ElementsGiven(input.d)[i].parameters[1].xml.attrib["value"]])



---------------------------------------------------------------------------
(* Smoothing and compensation as seen by another holder of the records *)

\* C19: smoothIsm(ism, ...) leaves the record it is given as it was
\* (frequency, impedance and phase arrays, fromIndex, toIndex and
\* swapNecessary) and returns another record than the one passed in.
C19_SmoothCopies ==
    [][(\E wp \in SmoothParams : SmoothIsmCall(wp[1], wp[2])) =>
          /\ objs'.meas = objs.meas
          /\ "same" \notin DOMAIN ret']_vars

\* the arrays of a spectrum
IsmArrays(o) == <<o.frequency, o.impedance, o.phase>>

\* the call after this one, with the same measurement and flag
CompensateAgain(conjugateShort) ==
    compensateIsm(objs'.meas, objs'.short, setup'.smoothingWindowLength,
                  setup'.smoothingPolyOrder, conjugateShort,
                  StoredCopy(Content(objs'.meas), input'.passedAs))

\* C20: a call of compensateIsm changes neither the calibration record the
\* SetupCompensation object holds nor the measurement passed in, and a
\* second call with the same measurement and flag returns a record with
\* equal frequency, impedance and phase arrays.
C20_CompensateRepeatable ==
    [][\A conjugateShort \in BOOLEAN :
          CompensateIsmCall(conjugateShort) =>
              /\ objs'.short = objs.short
              /\ objs'.meas = objs.meas
              /\ "obj" \in DOMAIN ret' =>
                    /\ CompensateAgain(conjugateShort).ok
                    /\ IsmArrays(CompensateAgain(conjugateShort).obj) = IsmArrays(ret'.obj)]_vars


---------------------------------------------------------------------------
(* thales_file_utils.py: the primitive readers driven on one stream       *)
(* A stream is opened and read field by field; every read starts where    *)
(* the last one left the stream position.                                  *)

\* streams: two doubles; the string "aB1" and an i2; three i2; an i6 and a
\* byte; each of them cut after any number of bytes
ReadBases ==
    {F8ToBytes(1) \o F8ToBytes(2),
     <<0, 3, 97, 66, 49, 0, 7>>,
     <<0, 1, 255, 254, 0, 2>>,
     <<255, 255, 255, 255, 255, 254, 9>>}

ReadStreams == UNION {{SubSeq(b, 1, n) : n \in 1..Len(b)} : b \in ReadBases}

Readers == {"f8", "f8 array", "i2", "i2 array", "i6", "string"}
ReadLengths == {1, 2}

ReadWith(reader, data, pos, length) ==
    CASE reader = "f8" -> readF8FromFile(data, pos)
      [] reader = "f8 array" -> readF8ArrayFromFile(data, pos, length)
      [] reader = "i2" -> readI2FromFile(data, pos)
      [] reader = "i2 array" -> readI2ArrayFromFile(data, pos, length)
      [] reader = "i6" -> readI6FromFile(data, pos)
      [] reader = "string" -> readZahnerStringFromFile(data, pos)

StreamOpen == codec.stage = "stream"

\* file = io.BytesIO(data)
OpenStream(data) ==
    /\ codec.stage = "idle"
    /\ input = NoObj
    /\ codec' = [stage |-> "stream", data |-> data, pos |-> 0, reader |-> "none"]
    /\ UNCHANGED <<ismVars, rt>>

\* one call of a reader on the open stream
ReadPrimitive(reader, length) ==
    /\ StreamOpen
    /\ codec' = [stage |-> "stream", data |-> codec.data, reader |-> reader,
                 length |-> length, from |-> codec.pos,
                 out |-> ReadWith(reader, codec.data, codec.pos, length),
                 pos |-> ReadWith(reader, codec.data, codec.pos, length).pos]
    /\ UNCHANGED <<ismVars, rt>>

NextRead ==
    \/ \E data \in ReadStreams : OpenStream(data)
    \/ \E reader \in Readers \ {"f8 array", "i2 array"} : ReadPrimitive(reader, 1)
    \/ \E reader \in {"f8 array", "i2 array"}, length \in ReadLengths :
          ReadPrimitive(reader, length)

SpecRead == Init /\ [][NextRead]_vars

\* the bytes a field takes: its fixed width, for a string the two bytes of
\* the length and, when these are in the stream, the characters they count
FieldWidth(reader, length, data, from) ==
    CASE reader = "f8" -> 8
      [] reader = "f8 array" -> 8 * length
      [] reader = "i2" -> 2
      [] reader = "i2 array" -> 2 * length
      [] reader = "i6" -> 6
      [] reader = "string" ->
            IF Len(data) - from < 2 THEN 2
            ELSE 2 + Max(0, IntFromBytes(SubSeq(data, from + 1, from + 2)))

ReadDone == StreamOpen /\ codec.reader # "none"

ReadTruncated ==
    /\ ReadDone
    /\ FieldWidth(codec.reader, codec.length, codec.data, codec.from)
          > Len(codec.data) - codec.from

\* C21: a primitive read (f8, f8 array, i2, i2 array, i6, length-prefixed
\* string) that needs more bytes than remain in the stream fails; it never
\* returns a value built from fewer bytes than the width of the field.
C21_TruncatedReadFails == ReadTruncated => ~codec.out.ok


---------------------------------------------------------------------------
(* isw_import.py: the decoder of a current/voltage over time file *)

\* the values are stored divided by 1000.0
Thousandth(v) == [value |-> v, per |-> 1000]

\* the loop over range(self.length): voltage, current and time of a row
RECURSIVE IswRows(_, _, _, _)
IswTakeTime(data, length, rows, v, c, t) ==
    IF ~t.ok THEN [ok |-> FALSE, err |-> t.err]
    ELSE IswRows(data, t.pos, length,
                 Append(rows, <<Thousandth(v.val), Thousandth(c.val), Thousandth(t.val)>>))

IswTakeCurrent(data, length, rows, v, c) ==
    IF ~c.ok THEN [ok |-> FALSE, err |-> c.err]
    ELSE IswTakeTime(data, length, rows, v, c, readF8FromFile(data, c.pos))

IswTakeVoltage(data, length, rows, v) ==
    IF ~v.ok THEN [ok |-> FALSE, err |-> v.err]
    ELSE IswTakeCurrent(data, length, rows, v, readF8FromFile(data, v.pos))

IswRows(data, pos, length, rows) ==
    IF Len(rows) >= length THEN [ok |-> TRUE, rows |-> rows]
    ELSE IswTakeVoltage(data, length, rows, readF8FromFile(data, pos))

IswConstructed(content, length, r) ==
    IF ~r.ok THEN [kind |-> "raised", err |-> r.err]
    ELSE [kind |-> "IswImport",
          _binaryFileContent |-> content,
          length |-> length,
          voltage |-> [i \in 1..length |-> r.rows[i][1]],
          current |-> [i \in 1..length |-> r.rows[i][2]],
          time |-> [i \in 1..length |-> r.rows[i][3]]]

\* np.zeros of a negative length raises
IswWithLength(data, content, count) ==
    IF count.val + 1 < 0 THEN [kind |-> "raised", err |-> "ValueError"]
    ELSE IswConstructed(content, count.val + 1,
                        IswRows(data, count.pos, count.val + 1, <<>>))

\* IswImport(filename): version, a second i6 and the row count, then the rows
IswImport(data, content) ==
    IswWithLength(data, content,
                  readI6FromFile(data, readI6FromFile(data, readI6FromFile(data, 0).pos).pos))

\* a file of n rows that lacks its last cut bytes
IswBytes(d) ==
    SubSeq(FileVersion \o Zeros(6) \o LowBytes(d.n - 1, 6)
           \o Concat([i \in 1..d.n |-> F8ArrayBytes(<<1000 * i, 2000 * i, 3000 * i>>)]),
           1, 18 + 24 * d.n - d.cut)

IswCuts == {0, 4}

\* isw = IswImport(path)
IswImportCall ==
    \E n \in 1..MaxN, cut \in IswCuts :
        CvImported([n |-> n, cut |-> cut], "IswImport",
                   IswImport(IswBytes([n |-> n, cut |-> cut]),
                             [shared |-> FALSE, bytes |-> IswBytes([n |-> n, cut |-> cut])]))

---------------------------------------------------------------------------
(* The decoders and what they leave open *)

\* bytes missing at the end of a spectrum file: none, part of the
\* metadata block, the metadata block and part of the primary arrays
HandleCuts == {0, 12, 300}

ImportCut ==
    \E n \in 1..MaxN, cut \in HandleCuts, way \in Ways :
        Import([PlainDesc(Falling(n), FALSE) EXCEPT !.cut = cut], way[1])

NextHandles ==
    \/ ImportCut
    \/ ImportCvWithAcq
    \/ ImportCvText
    \/ ImportIssText
    \/ SeqTxtImportCall
    \/ IswImportCall

SpecHandles == Init /\ [][NextHandles]_vars

\* C22: when a decoder (IsmImport, IscImport, IssImport, IswImport,
\* SeqTxtImport) has returned or raised, every file and buffer it opened
\* has been closed.
C22_HandlesClosed == StillOpen = {}


---------------------------------------------------------------------------
(* The lengths of the arrays of a spectrum *)

getNumberOfSamples(o) == o.numberOfSamples

PrimaryArrays(o) ==
    <<o.frequency, o.impedance, o.phase, o.measurementTimeStamp, o.significance>>

\* the arrays the accessors hand out: the five primary ones and the tracks
AccessorArrays(o, inc) ==
    {getFrequencyArray(o, inc), getImpedanceArray(o, inc), getPhaseArray(o, inc),
     getMeasurementDateTimeArray(o, inc), getSignificanceArray(o, inc)}
    \cup {getTrack(o, o.acqChannels[c].name, inc) : c \in 1..Len(o.acqChannels)}

OneLength(o) ==
    /\ \A i \in 1..Len(PrimaryArrays(o)) : Len(PrimaryArrays(o)[i]) = getNumberOfSamples(o)
    /\ \A c \in 1..Len(o.acqChannels) : Len(o.acqChannels[c].data) = getNumberOfSamples(o)
    /\ \A inc \in BOOLEAN : \A a, b \in AccessorArrays(o, inc) : Len(a) = Len(b)

\* C23: in every spectrum reached by decoding and any sequence of smoothIsm
\* and compensateIsm calls, the frequency, impedance, phase, timestamp and
\* significance arrays and every ACQ channel have the length
\* getNumberOfSamples(), and the accessors return arrays of one length for
\* the same includeDoubleFrequencies.
C23_ArraysShareLength == \A o \in Spectra : OneLength(o)


---------------------------------------------------------------------------
(* IsmExport called with arrays, strings and a metadata blob *)

\* array lengths passed; the values differ from array to array
ExportFrequency(n) == Falling(n)
ExportImpedance(n) == [i \in 1..n |-> 10 + i]
ExportPhaseGiven(n) == [i \in 1..n |-> 2 * i - 5]

\* the ten strings: empty; "aB0" .. "aB9", one per field; the same with
\* "25 °C" (in Latin-1) as the temperature
FieldStrings == [i \in 1..Len(StringFields) |-> <<97, 66, 47 + i>>]
ExportStrings ==
    {NoStrings, FieldStrings, [FieldStrings EXCEPT ![4] = <<50, 53, 32, 176, 67>>]}

ExportGiven(nf, ni, np, strings, metaData) ==
    [frequency |-> ExportFrequency(nf), impedance |-> ExportImpedance(ni),
     phase |-> ExportPhaseGiven(np), strings |-> strings, metaData |-> metaData]

ExportOf(g) == IsmExport(NoObj, g.frequency, g.impedance, g.phase, g.strings, g.metaData)

Exported(g, e) ==
    /\ input = NoObj
    /\ rt.stage = "idle"
    /\ input' = [kind |-> "input", decoder |-> "IsmExport", d |-> g]
    /\ rt' = IF e.ok THEN [stage |-> "exported", content |-> e.bytes]
             ELSE [stage |-> "failed", err |-> e.err]
    /\ UNCHANGED <<callerBuf, objs, setup, ret, codec, handles, job>>

\* export = IsmExport(frequency=..., impedance=..., phase=..., <strings>, metaData=...)
ExportArraysCall ==
    \E nf, ni, np \in 0..MaxN, strings \in ExportStrings, metaData \in Blobs :
        Exported(ExportGiven(nf, ni, np, strings, metaData),
                 ExportOf(ExportGiven(nf, ni, np, strings, metaData)))

NextExport ==
    \/ ExportArraysCall
    \/ ImportAgain

SpecExport == Init /\ [][NextExport]_vars

ExportCalled == input.kind = "input" /\ input.decoder = "IsmExport"

\* the arrays passed have one length N >= 1
EqualArrays(g) ==
    /\ Len(g.frequency) >= 1
    /\ Len(g.impedance) = Len(g.frequency)
    /\ Len(g.phase) = Len(g.frequency)

\* strings the codec can write: ASCII, and not longer than an i2 counts
Writable(strings) ==
    \A i \in 1..Len(strings) :
        Len(strings[i]) <= I2Max /\ \A j \in 1..Len(strings[i]) : IsAscii(strings[i][j])

\* the layout of the file: header, count, the five arrays, the strings of
\* the metadata block (an empty date first, an empty serial string last),
\* the blob
ExportLayout(g) ==
    <<0, 0, 255, 255, 255, 254>>
    \o LowBytes(Len(g.frequency) - 1, 6)
    \o F8ArrayBytes(g.frequency) \o F8ArrayBytes(g.impedance) \o F8ArrayBytes(g.phase)
    \o F8ArrayBytes([i \in 1..Len(g.frequency) |-> i - 1])
    \o I2ArrayBytes([i \in 1..Len(g.frequency) |-> 1000])
    \o RawString(<<>>)
    \o Concat([i \in 1..Len(g.strings) |-> RawString(g.strings[i])])
    \o RawString(<<>>)
    \o g.metaData

StringsOf(o) ==
    <<o.system, o.voltage, o.current, o.temperature, o.timeWindow,
      o.comment_1, o.comment_2, o.comment_3, o.comment_4, o.electrodeArea>>

ExportDecodes(g) ==
    /\ rt.stage # "failed"
    /\ rt.content = ExportLayout(g)
    /\ rt.stage = "decoded" =>
          /\ rt.again.kind = "IsmImport"
          /\ getNumberOfSamples(rt.again) = Len(g.frequency)
          /\ rt.again.significance = [i \in 1..Len(g.frequency) |-> 1000]
          /\ StringsOf(rt.again) = g.strings

---------------------------------------------------------------------------
(* eis_fitting.py: EisFitting.zhit, fit and _waitForJob                   *)
(* A call runs from one request to the next; job.pc names the request it  *)
(* is about to send.  Time is counted in polling intervals (the 20 ms of  *)
(* time.sleep); job.elapsed is time.time() - startTime.  The replies of   *)
(* the server are inputs.                                                 *)

\* elapsed stops counting here; more than every timeout and one interval
MaxClock == 5

Timeouts == {NoneValue, [ticks |-> 0], [ticks |-> 2]}

\* dictionaries a caller passes: {}, {"Smoothness": 0.0002}, {"DataSource": "original"}
CallerDicts == {<<>>, "Smoothness" :> "0.0002", "DataSource" :> "original"}

\* d[key] = value
DictSet(d, key, value) == (key :> value) @@ d

\* the document of DUMMY_MODEL
DummyTree == IsfxTree(IsfxDesc("indented", <<"plainR0">>, "node"))

JobFree == job.pc \in {"idle", "returned", "raised"}

\* a call has been entered; its first request is the one pc names
Entered(entry, pc, passed, given, fitParams, timeout) ==
    [job EXCEPT !.pc = pc, !.entry = entry, !.timeout = timeout, !.elapsed = 0,
                !.result = NoneValue, !.requests = <<>>, !.reply = NoneValue,
                !.err = "", !.passed = passed, !.given = given,
                !.caller = IF passed = "caller" THEN fitParams ELSE <<>>,
                !.zhitDefault = IF passed = "default" THEN fitParams ELSE @,
                !.fetched = <<>>, !.value = NoneValue]

\* zhit(data, parameters, timeout) with the caller's dictionary, or
\* zhit(data, timeout=timeout) with the default one: the model is built,
\* the key DataSource is set, and fit is entered
ZhitWith(model, passed, given, timeout) ==
    /\ JobFree
    /\ job' = IF model.kind = "raised"
              THEN [Entered("zhit", "raised", passed, given, given, timeout)
                        EXCEPT !.err = model.err]
              ELSE Entered("zhit", "start", passed, given,
                           DictSet(given, "DataSource", "zhit"), timeout)
    /\ UNCHANGED <<input, callerBuf, objs, setup, ret, rt, codec, handles>>

ZhitCall ==
    \E types \in SetOrders(IsfxMatched(DummyTree, "indented")), timeout \in Timeouts :
        \/ \E d \in CallerDicts :
              ZhitWith(IsfxModelImport(DummyTree, "indented", types), "caller", d, timeout)
        \/ ZhitWith(IsfxModelImport(DummyTree, "indented", types), "default",
                    job.zhitDefault, timeout)

\* fit(model, data, fitParams, timeout=timeout)
FitCall ==
    /\ JobFree
    /\ \E d \in CallerDicts, timeout \in Timeouts :
          job' = Entered("fit", "start", "caller", d, d, timeout)
    /\ UNCHANGED <<input, callerBuf, objs, setup, ret, rt, codec, handles>>

\* _waitForJob(jobId, timeout)
WaitForJobCall ==
    /\ JobFree
    /\ \E timeout \in Timeouts :
          job' = Entered("_waitForJob", "poll", "none", <<>>, <<>>, timeout)
    /\ UNCHANGED <<input, callerBuf, objs, setup, ret, rt, codec, handles>>

\* the request log; the polls of one wait are entered once
Requested(requests, what) ==
    IF requests # <<>> /\ requests[Len(requests)] = what THEN requests
    ELSE Append(requests, what)

\* replies to POST /job/start
StartReplies ==
    {[status_code |-> 200, status |-> "queued"], [status_code |-> 200, status |-> "failed"],
     [status_code |-> 500, status |-> ""]}

\* _startFit: on a reply other than 200 the else branch reads replyContent,
\* which was never assigned; after a reply 200 _waitForJob is entered
StartStep(reply) ==
    /\ job.pc = "start"
    /\ job' = IF reply.status_code = 200
              THEN [job EXCEPT !.pc = "poll", !.requests = Requested(@, "start"),
                               !.elapsed = 0]
              ELSE [job EXCEPT !.pc = "raised", !.requests = Requested(@, "start"),
                               !.err = "UnboundLocalError"]
    /\ UNCHANGED <<input, callerBuf, objs, setup, ret, rt, codec, handles>>

\* replies to GET /job/<id>/status: the status of a reply 200, and whether
\* the body of another reply is JSON
StatusReplies ==
    {[status_code |-> 200, json |-> TRUE, status |-> s, result |-> r] :
        s \in {"done", "failed", "running"}, r \in BOOLEAN}
    \cup {[status_code |-> 404, json |-> j, status |-> "", result |-> FALSE] : j \in BOOLEAN}

Terminal(reply) == reply.status_code # 200 \/ reply.status \in {"done", "failed"}

\* _waitForJob has returned result or raised err: the function itself was
\* called, or fit goes on, raising when there is no result
WaitEnded(j, result, err) ==
    IF err # "" THEN [j EXCEPT !.pc = "raised", !.err = err]
    ELSE IF j.entry = "_waitForJob" THEN [j EXCEPT !.pc = "returned", !.value = result]
    ELSE IF result = NoneValue THEN [j EXCEPT !.pc = "raised", !.err = "ZahnerAnalysisError"]
    ELSE [j EXCEPT !.pc = "model", !.result = result]

TimedOut(timeout, diffTime) == timeout # NoneValue /\ diffTime > timeout.ticks

\* one turn of the while loop: the request takes took intervals, and a turn
\* that goes on sleeps one more
Polled(j, reply, took) ==
    IF reply.status_code # 200
    THEN WaitEnded(j, NoneValue, IF reply.json THEN "" ELSE "JSONDecodeError")
    ELSE IF reply.status = "done"
    THEN WaitEnded(j, IF reply.result THEN [result |-> "fit result"] ELSE NoneValue, "")
    ELSE IF reply.status = "failed" THEN WaitEnded(j, NoneValue, "")
    ELSE IF TimedOut(j.timeout, j.elapsed + took)
    THEN WaitEnded([j EXCEPT !.elapsed = Min(@ + took, MaxClock)], NoneValue, "")
    ELSE [j EXCEPT !.elapsed = Min(@ + took + 1, MaxClock)]

PollStep(reply, took) ==
    /\ job.pc = "poll"
    /\ job' = Polled([job EXCEPT !.requests = Requested(@, "status"), !.reply = reply],
                     reply, took)
    /\ UNCHANGED <<input, callerBuf, objs, setup, ret, rt, codec, handles>>

Poll == \E reply \in StatusReplies, took \in 0..1 : PollStep(reply, took)

\* the value fit returns, and what zhit makes of it
FitValue(j, samples) ==
    IF j.entry = "zhit" THEN samples
    ELSE [kind |-> "EisFittingResult", _fitResult |-> j.result,
          _fittedModel |-> j.fetched[1], _fittedSimulatedData |-> j.fetched[2],
          _fitInputData |-> samples]

NextFetch(pc) ==
    CASE pc = "model" -> "simulation" [] pc = "simulation" -> "samples"
      [] pc = "samples" -> "returned"

\* the object built from a reply, or the exception of its constructor
Fetched(j, o) ==
    IF o.kind = "raised"
    THEN [j EXCEPT !.pc = "raised", !.err = o.err, !.requests = Requested(@, j.pc)]
    ELSE IF j.pc = "samples"
    THEN [j EXCEPT !.pc = "returned", !.requests = Requested(@, j.pc),
                   !.value = FitValue(j, o)]
    ELSE [j EXCEPT !.pc = NextFetch(j.pc), !.requests = Requested(@, j.pc),
                   !.fetched = Append(@, o)]

\* _readFittedModel: the reply is the document of the model, or no XML
FetchModel ==
    /\ job.pc = "model"
    /\ \/ \E types \in SetOrders(IsfxMatched(DummyTree, "indented")) :
             job' = Fetched(job, IsfxModelImport(DummyTree, "indented", types))
       \/ job' = Fetched(job, [kind |-> "raised", err |-> "ParseError"])
    /\ UNCHANGED <<input, callerBuf, objs, setup, ret, rt, codec, handles>>

\* contents of a reply with a spectrum: a file of two samples, or nothing
FetchContents == {IsmBytes(PlainDesc(Falling(2), FALSE)), <<>>}

\* _readSimulatedData and _readFitInputData: IsmImport(reply.content)
FetchSpectrum ==
    /\ job.pc \in {"simulation", "samples"}
    /\ \E content \in FetchContents : \E garbage \in GarbageChoices(content) :
          /\ job' = Fetched(job, IsmImport(content, Stored(content, "bytes"), garbage))
          /\ handles' = handles \cup IsmHandles(content, "bytes")
    /\ UNCHANGED <<input, callerBuf, objs, setup, ret, rt, codec>>

NextFit ==
    \/ ZhitCall
    \/ FitCall
    \/ WaitForJobCall
    \/ \E reply \in StartReplies : StartStep(reply)
    \/ Poll
    \/ FetchModel
    \/ FetchSpectrum

SpecFit == Init /\ [][NextFit]_vars

\* the loop of _waitForJob goes on: the server answers every request
SpecFitFair == SpecFit /\ WF_vars(Poll)


\* _waitForJob itself was called and has ended
WaitOver == job.entry = "_waitForJob" /\ job.pc \in {"returned", "raised"}

\* a result that is not None comes with a reply 200 of status done
ResultAfterDone ==
    (job.pc = "returned" /\ job.value # NoneValue)
        => job.reply.status_code = 200 /\ job.reply.status = "done"

\* the wait goes on only after a reply 200 whose status is not terminal
EndsOnTerminal ==
    (job.entry = "_waitForJob" /\ job.pc = "poll" /\ job.reply # NoneValue)
        => ~Terminal(job.reply)

\* with timeout None a reply that is not terminal never ends the wait
NoTimeoutGoesOn ==
    [][(job.pc = "poll" /\ job.timeout = NoneValue /\ job'.reply # NoneValue
            /\ ~Terminal(job'.reply)) => job'.pc = "poll"]_vars

\* a wait with a finite timeout ends, and when only the timeout ended it
\* more than timeout has passed and None is returned
FiniteTimeoutEnds ==
    (job.pc = "poll" /\ job.timeout # NoneValue) ~> (job.pc # "poll")

TimeoutPassed ==
    (WaitOver /\ job.reply # NoneValue /\ ~Terminal(job.reply))
        => /\ TimedOut(job.timeout, job.elapsed)
           /\ job.pc = "returned" /\ job.value = NoneValue

\* C25: _waitForJob returns a result other than None only after a reply of
\* status done, and after a failed status or a reply other than 200 it
\* stops polling and returns None.
C25_WaitReturns ==
    /\ ResultAfterDone
    /\ EndsOnTerminal
    /\ (WaitOver /\ Terminal(job.reply) /\ ~(job.reply.status_code = 200 /\ job.reply.status = "done"))
          => job.pc = "returned" /\ job.value = NoneValue

\* C25 without the replies other than 200 whose body is not JSON
C25_JsonReplies ==
    (WaitOver /\ Terminal(job.reply) /\ job.reply.json
        /\ ~(job.reply.status_code = 200 /\ job.reply.status = "done"))
          => job.pc = "returned" /\ job.value = NoneValue


\* zhit was called with a dictionary of the caller
ZhitPassed == job.entry = "zhit" /\ job.passed = "caller"

\* the keys other than DataSource of the caller's dictionary are as passed
OtherKeysKept ==
    ZhitPassed =>
        /\ DOMAIN job.caller \ {"DataSource"} = DOMAIN job.given \ {"DataSource"}
        /\ \A k \in DOMAIN job.given \ {"DataSource"} : job.caller[k] = job.given[k]

\* a call without parameters passes nothing but DataSource
DefaultSeesEmpty ==
    (job.entry = "zhit" /\ job.passed = "default")
        => DOMAIN job.zhitDefault \ {"DataSource"} = {}

\* the default dictionary is the empty one of the definition of zhit
DefaultStaysEmpty == job.zhitDefault = <<>>

\* C28: after zhit the dictionary the caller passed has the keys and values
\* it had before the call, and a call without parameters sees no
\* parameters apart from DataSource.
C28_ZhitFrame ==
    /\ ZhitPassed => job.caller = job.given
    /\ DefaultSeesEmpty


\* fit is running or has ended, called directly or by zhit
FitEntered == job.entry \in {"fit", "zhit"} /\ job.pc # "idle"

FitSteps == <<"start", "status", "model", "simulation", "samples">>

\* the requests of one call are the first steps, in the order of FitSteps
RequestOrder ==
    FitEntered =>
        /\ Len(job.requests) <= Len(FitSteps)
        /\ job.requests = SubSeq(FitSteps, 1, Len(job.requests))

\* the wait of fit has ended and there is no result
WaitWithoutResult ==
    /\ FitEntered
    /\ job.pc # "poll"
    /\ job.reply # NoneValue
    /\ ~(job.reply.status_code = 200 /\ job.reply.status = "done" /\ job.reply.result)

\* without a result nothing is fetched
NoFetchWithoutResult ==
    WaitWithoutResult => Len(job.requests) = 2 /\ job.pc = "raised"

\* C29: fit sends its requests in the order start, status, model,
\* simulation, samples, and when the wait ends without a result it raises
\* ZahnerAnalysisError and requests neither model nor simulation nor
\* samples.
C29_FitOrder ==
    /\ RequestOrder
    /\ NoFetchWithoutResult
    /\ WaitWithoutResult => job.err = "ZahnerAnalysisError"

\* C29 for status replies whose body is JSON
C29_JsonReplies ==
    (WaitWithoutResult /\ job.reply.json) => job.err = "ZahnerAnalysisError"


\* entries of the five arrays IsmExport writes: the three arrays in full,
\* times and significance numberOfElements long
ExportArrayLengths(g) ==
    <<Len(g.frequency), Len(g.impedance), Len(g.phase),
      Min(Len(g.frequency), Min(Len(g.impedance), Len(g.phase))),
      Min(Len(g.frequency), Min(Len(g.impedance), Len(g.phase)))>>

\* the bytes of the k-th f8 array of a file with n samples, where the
\* decoder reads it
ArraysStart(content) == readI6FromFile(content, readI6FromFile(content, 0).pos).pos

F8ArrayAt(content, k, n) ==
    SubSeq(content, ArraysStart(content) + 8 * n * (k - 1) + 1,
           ArraysStart(content) + 8 * n * k)

\* a file was written, and the decoder finds the first entries of the
\* arrays passed where it reads frequency, impedance and phase
ArraysAtOffsets(g, content) ==
    /\ F8ArrayAt(content, 1, HeaderSamples(content))
          = F8ArrayBytes(SubSeq(g.frequency, 1, HeaderSamples(content)))
    /\ F8ArrayAt(content, 2, HeaderSamples(content))
          = F8ArrayBytes(SubSeq(g.impedance, 1, HeaderSamples(content)))
    /\ F8ArrayAt(content, 3, HeaderSamples(content))
          = F8ArrayBytes(SubSeq(g.phase, 1, HeaderSamples(content)))

CountMatchesArrays(g) ==
    /\ rt.stage # "failed"
    /\ \A k \in 1..5 : ExportArrayLengths(g)[k] = HeaderSamples(rt.content)
    /\ ArraysAtOffsets(g, rt.content)

\* C26: for any frequency, impedance and phase passed to IsmExport, of
\* different lengths or empty, the count of the header plus one is the
\* number of entries written in each of the five arrays, and the arrays
\* are where the decoder reads them.
C26_CountMatchesArrays ==
    (ExportCalled /\ Writable(input.d.strings)) => CountMatchesArrays(input.d)

\* C26 for arrays of one length N >= 1
C26_EqualLengths ==
    (ExportCalled /\ Writable(input.d.strings) /\ EqualArrays(input.d))
        => CountMatchesArrays(input.d)

\* arrays that are not empty are written whatever their lengths
UnequalWritten ==
    (ExportCalled /\ Writable(input.d.strings)
        /\ \A k \in 1..5 : ExportArrayLengths(input.d)[k] >= 1)
        => rt.stage # "failed"


\* C27: whenever a record reports metaDataAcqParsingErrorOccurred it has
\* no acquisition channel: getTrackTypesList() is empty.
C27_NoChannelsAfterError ==
    (Live("meas") /\ objs.meas.metaDataAcqParsingErrorOccurred)
        => getTrackTypesList(objs.meas) = <<>>

\* C27 for files whose ACQ block is complete: a failure before the ACQ
\* block leaves no channel
C27_FailureBeforeAcq ==
    (Live("meas") /\ objs.meas.metaDataAcqParsingErrorOccurred /\ input.d.cut = 0)
        => getTrackTypesList(objs.meas) = <<>>


\* the numbers of the columns of a data line
RowValues(row) ==
    {PyFloat(c).val : c \in {Columns(row)[i] : i \in {j \in 1..Len(Columns(row)) :
                                                        PyFloat(Columns(row)[j]).ok}}}

\* a track has one value for every data line, the k-th from the k-th line
TrackByLine(track, rows) ==
    /\ Len(track) = Len(rows)
    /\ \A k \in 1..Len(rows) : track[k] \in RowValues(rows[k])

TracksByLine(o, d) ==
    \A i \in 1..Len(SeqGetTrackTypesList(o)) :
        /\ SeqGetTrack(o, SeqGetTrackTypesList(o)[i]).ok
        /\ TrackByLine(SeqGetTrack(o, SeqGetTrackTypesList(o)[i]).val, d.rows)

\* the names of the header differ from one another
DistinctNames(names) ==
    \A i, j \in 1..Len(names) : names[i] = names[j] => i = j

\* C30: after a successful decode of a sequence-text file with R data
\* lines every track getTrack returns has R values, the k-th from the k-th
\* data line, whatever the header, a header with one name twice included.
C30_TracksHaveRValues == (SeqGiven /\ LiveSeq) => TracksByLine(objs.meas, input.d)

\* C30 for headers whose names differ from one another
C30_DistinctNames ==
    (SeqGiven /\ LiveSeq /\ DistinctNames(SeqGetTrackTypesList(objs.meas)))
        => TracksByLine(objs.meas, input.d)

===========================================================================
